---- MODULE Spec2Model ----
(***************************************************************************)
(* Change reconciliation and review engine of the conductor backend        *)
(* (backend/api.py, backend/module.py, backend/action_logger.py).          *)
(*                                                                         *)
(* One project is modelled.  The durable store is the set of variables     *)
(* below; every request handler of api.py that the properties talk about   *)
(* is one action; in SpecRace the accept and the decline handler are       *)
(* split at their commits, so that two requests interleave.  Every         *)
(* statement a handler issues succeeds, except in                          *)
(* AcceptPendingChangeFailing, where a statement of the accept handler     *)
(* raises, where MySQL refuses a row whose phase does not exist, and where *)
(* update_table_data reads a local variable that was never bound.          *)
(***************************************************************************)
EXTENDS Integers, Sequences, FiniteSets, TLC

VARIABLES
    now,        \* datetime.utcnow(), counted in half seconds
    project,    \* Project row: version, manager_role, reset_epoch
    roles,      \* ProjectRole rows: set of role names
    scripts,    \* PeriodicScript rows: id -> [name, path, status]
    phases,     \* Phase rows: id -> [phase_number, is_active]
    rows,       \* Row rows: id -> [phase_id, role, ..., updated_at]
    nextId,     \* AUTO_INCREMENT counters: [phase, row, script]
    changes,    \* PendingChange rows, in id order (id = index)
    logs,       \* ActionLog rows, in id order
    resp,       \* the response of the last request
    last,       \* the last request: handler name and its inputs
    reqs,       \* number of requests served so far, per handler
    inflight    \* review requests being served: position, inputs, response

vars == <<now, project, roles, scripts, phases, rows, nextId, changes, logs, resp, last, reqs,
          inflight>>

-----------------------------------------------------------------------------
(* Bounds of the model *)

MaxTime == 3            \* the clock stops after this many half seconds
MaxUpdates == 1         \* update_row requests per behaviour
MaxResets == 1          \* reset-statuses requests per behaviour
MaxSubmissions == 1     \* pending-change submissions per behaviour
MaxFailures == 1        \* accept requests that fail midway per behaviour
MaxRemovals == 1        \* delete_row and delete_phase requests per behaviour, each
MaxPhases == 1          \* create_phase requests per behaviour
MaxBulkUpdates == 1     \* update_table_data requests per behaviour
MaxInflight == 2        \* review requests served at the same time

-----------------------------------------------------------------------------
(* Values *)

NoneVal == "None"       \* Python None / SQL NULL, for string-valued fields
NoId == 0               \* a missing (falsy) id
NoDate == -1            \* a missing date (None)
NoPhase == -1           \* a missing phase number (None)
NoEpoch == -1           \* a request without a reset_epoch argument

RoleNames == {"r1", "r2"}
Times == {"t1", "t2"}
Durations == {"u1", "u2"}
Descriptions == {"d1", "d2"}
ScriptPaths == {"", "s1"}
Statuses == {"N/A", "Passed", "Failed"}
ScriptResults == {NoneVal, "True", "False"}

ManagerRole == "manager"
Actors == {[user_name |-> "ann", user_role |-> "manager"],
           [user_name |-> "bob", user_role |-> "operator"]}

ContentFields == {"role", "time", "duration", "description", "script"}

Get(d, k, default) == IF k \in DOMAIN d THEN d[k] ELSE default

RECURSIVE SetToSeq(_)
SetToSeq(S) ==
    IF S = {} THEN <<>>
    ELSE LET m == CHOOSE x \in S : \A y \in S : x <= y
         IN <<m>> \o SetToSeq(S \ {m})

-----------------------------------------------------------------------------
(* Time.  The DATETIME columns of module.py have no fractional digits, so   *)
(* MySQL rounds a written value to the nearest whole second.                *)

TicksPerSecond == 2

utcnow == now

DbDatetime(t) == ((t + 1) \div TicksPerSecond) * TicksPerSecond

StrfTime(t) == (t \div TicksPerSecond) * TicksPerSecond

Seconds(n) == n * TicksPerSecond

-----------------------------------------------------------------------------
(* Reading the store *)

PhaseIdsByNumber(n) == {p \in DOMAIN phases : phases[p].phase_number = n}

PhaseByNumber(n) ==
    IF PhaseIdsByNumber(n) = {} THEN NoId
    ELSE CHOOSE p \in PhaseIdsByNumber(n) : TRUE

PhaseNumbers == {phases[p].phase_number : p \in DOMAIN phases}

RowBefore(rs, a, b) ==
    \/ rs[a].updated_at < rs[b].updated_at
    \/ rs[a].updated_at = rs[b].updated_at /\ a < b

RECURSIVE OrderRows(_, _)
OrderRows(rs, S) ==
    IF S = {} THEN <<>>
    ELSE LET m == CHOOSE x \in S : \A y \in S \ {x} : RowBefore(rs, x, y)
         IN <<m>> \o OrderRows(rs, S \ {m})

PhaseRowsIn(rs, pid) == OrderRows(rs, {r \in DOMAIN rs : rs[r].phase_id = pid})

PhaseRows(pid) == PhaseRowsIn(rows, pid)

RowToDict(id) ==
    [id |-> id, role |-> rows[id].role, time |-> rows[id].time,
     duration |-> rows[id].duration, description |-> rows[id].description,
     script |-> rows[id].script, status |-> rows[id].status]

-----------------------------------------------------------------------------
(* ActionLogger *)

LogEntry(actor, action_type, row_id, details, epoch) ==
    [id |-> Len(logs) + 1, user_name |-> actor.user_name, user_role |-> actor.user_role,
     action_type |-> action_type, row_id |-> row_id, details |-> details,
     reset_epoch |-> epoch, timestamp |-> DbDatetime(utcnow)]

Renumber(entries, base) ==
    [i \in 1..Len(entries) |-> [entries[i] EXCEPT !.id = base + i]]

log_row_status_change(actor, row_id, old_status, new_status, epoch) ==
    LogEntry(actor, "row_status_change", row_id,
             [old_status |-> old_status, new_status |-> new_status, row_id |-> row_id], epoch)

log_row_edit(actor, row_id, phase_number, old_data, new_data, epoch) ==
    LogEntry(actor, "row_edit", row_id,
             [row_id |-> row_id, phase_number |-> phase_number,
              old_data |-> old_data, new_data |-> new_data], epoch)

log_reset_statuses(actor, rows_count, epoch) ==
    LogEntry(actor, "reset_statuses", NoId,
             [rows_count |-> rows_count, new_status |-> "N/A"], epoch)

-----------------------------------------------------------------------------
(* update_row *)

FieldChanged(data, row, key, field) == key \in DOMAIN data /\ data[key] # row[field]

ChangedContentFields(data, row) == {f \in ContentFields : FieldChanged(data, row, f, f)}

only_status_changed_Never(data, row) == FALSE

only_status_changed(data, row) ==
    /\ ChangedContentFields(data, row) = {}
    /\ ~FieldChanged(data, row, "scriptResult", "script_result")
    /\ row.status # Get(data, "status", row.status)

RowAfterUpdate(data, row) ==
    [row EXCEPT !.role = Get(data, "role", row.role),
                !.time = Get(data, "time", row.time),
                !.duration = Get(data, "duration", row.duration),
                !.description = Get(data, "description", row.description),
                !.script = Get(data, "script", row.script),
                !.status = Get(data, "status", row.status),
                !.script_result = Get(data, "scriptResult", row.script_result),
                !.updated_at = DbDatetime(utcnow)]

RowEditFieldOrder == <<"role", "time", "duration", "description", "script">>

RowEditLogs_OneEntry(actor, row_id, data, row, newrow) ==
    IF ChangedContentFields(data, row) # {} /\ actor.user_role = project.manager_role
    THEN <<log_row_edit(actor, row_id, phases[row.phase_id].phase_number,
             [f \in ChangedContentFields(data, row) |-> newrow[f]],
             [f \in ChangedContentFields(data, row) |-> Get(data, f, newrow[f])],
             project.reset_epoch)>>
    ELSE <<>>

RowEditLogs(actor, row_id, data, row, newrow) ==
    IF ChangedContentFields(data, row) # {} /\ actor.user_role = project.manager_role
    THEN LET fs == SelectSeq(RowEditFieldOrder, LAMBDA f : FieldChanged(data, row, f, f))
         IN [i \in 1..Len(fs) |->
                log_row_edit(actor, row_id, phases[row.phase_id].phase_number,
                             (fs[i] :> newrow[fs[i]]),
                             (fs[i] :> Get(data, fs[i], newrow[fs[i]])),
                             project.reset_epoch)]
    ELSE <<>>

StatusLogs(actor, row_id, old_status, new_status) ==
    IF old_status # new_status
    THEN <<log_row_status_change(actor, row_id, old_status, new_status, project.reset_epoch)>>
    ELSE <<>>

UpdateRow(row_id, data, actor) ==
    /\ row_id \in DOMAIN rows
    /\ reqs.update_row < MaxUpdates
    /\ LET row == rows[row_id]
           old_status == row.status
           new_status == Get(data, "status", row.status)
       IN IF only_status_changed(data, row)
          THEN /\ rows' = [rows EXCEPT ![row_id] =
                              [row EXCEPT !.status = new_status,
                                          !.updated_at = DbDatetime(StrfTime(row.updated_at))]]
               /\ logs' = logs \o Renumber(StatusLogs(actor, row_id, old_status, new_status), Len(logs))
          ELSE LET newrow == RowAfterUpdate(data, row)
               IN /\ rows' = [rows EXCEPT ![row_id] = newrow]
                  /\ logs' = logs \o Renumber(RowEditLogs(actor, row_id, data, row, newrow)
                                              \o StatusLogs(actor, row_id, old_status, new_status),
                                              Len(logs))
    /\ resp' = [status |-> 200, row |-> rows'[row_id]]
    /\ last' = [op |-> "update_row", row_id |-> row_id, data |-> data, actor |-> actor]
    /\ reqs' = [reqs EXCEPT !.update_row = @ + 1]
    /\ UNCHANGED inflight
    /\ UNCHANGED <<now, project, roles, scripts, phases, nextId, changes>>

-----------------------------------------------------------------------------
(* reset_all_statuses *)

ResetRows(rs) ==
    [r \in DOMAIN rs |-> [rs[r] EXCEPT !.status = "N/A", !.updated_at = DbDatetime(utcnow)]]

NextResetEpoch_Same(epoch) == epoch

NextResetEpoch_Skip(epoch) == epoch + 2

NextResetEpoch(epoch) == epoch + 1

ResetAllStatuses(actor) ==
    /\ reqs.reset_statuses < MaxResets
    /\ IF actor.user_role = "" \/ actor.user_role # project.manager_role
       THEN /\ resp' = [status |-> 403]
            /\ UNCHANGED <<project, rows, logs>>
       ELSE LET new_reset_epoch == NextResetEpoch(project.reset_epoch)
                rows_count == Cardinality({r \in DOMAIN rows : rows[r].phase_id \in DOMAIN phases})
            IN /\ project' = [project EXCEPT !.reset_epoch = new_reset_epoch]
               /\ rows' = ResetRows(rows)
               /\ logs' = Append(logs, log_reset_statuses(actor, rows_count, new_reset_epoch))
               /\ resp' = [status |-> 200, rows_reset |-> rows_count, reset_epoch |-> new_reset_epoch]
    /\ last' = [op |-> "reset_statuses", actor |-> actor]
    /\ reqs' = [reqs EXCEPT !.reset_statuses = @ + 1]
    /\ UNCHANGED inflight
    /\ UNCHANGED <<now, roles, scripts, phases, nextId, changes>>

-----------------------------------------------------------------------------
(* get_action_logs *)

LogMatchesEpoch_Any(entry, epoch) == TRUE

LogMatchesEpoch(entry, epoch) == entry.reset_epoch = epoch

LogMatchesFilters(entry, filters) ==
    /\ filters.action_type # "" => entry.action_type = filters.action_type
    /\ filters.user_name # "" => entry.user_name = filters.user_name
    /\ filters.start_date # NoDate => entry.timestamp >= filters.start_date
    /\ filters.end_date # NoDate => entry.timestamp <= filters.end_date

QueryActionLogs(filters) ==
    {logs[i] : i \in {j \in 1..Len(logs) :
                        /\ LogMatchesEpoch(logs[j], project.reset_epoch)
                        /\ LogMatchesFilters(logs[j], filters)}}

GetActionLogs(user_role, filters, reset_epoch_arg) ==
    /\ IF user_role = "" \/ user_role # project.manager_role
       THEN resp' = [status |-> 403]
       ELSE resp' = [status |-> 200, logs |-> QueryActionLogs(filters)]
    /\ last' = [op |-> "get_action_logs", user_role |-> user_role, filters |-> filters,
                reset_epoch |-> reset_epoch_arg]
    /\ UNCHANGED <<now, project, roles, scripts, phases, rows, nextId, changes, logs, reqs, inflight>>

-----------------------------------------------------------------------------
(* create_pending_change: the diff of a submitted snapshot against the store *)

RECURSIVE Concat(_)
Concat(ss) == IF ss = <<>> THEN <<>> ELSE Head(ss) \o Concat(Tail(ss))

RECURSIVE SetToSeqAny(_)
SetToSeqAny(S) ==
    IF S = {} THEN <<>>
    ELSE LET x == CHOOSE y \in S : TRUE IN <<x>> \o SetToSeqAny(S \ {x})

Range(s) == {s[i] : i \in 1..Len(s)}

Proto(change_type, changes_data) == [change_type |-> change_type, changes_data |-> changes_data]

ExplicitOps(cd) ==
    IF "explicit_operations" \in DOMAIN cd THEN cd.explicit_operations
    ELSE [row_moves |-> <<>>, row_duplicates |-> <<>>]

MoveOpValid_CrossPhaseOnly(op) ==
    /\ op.row_id # NoId /\ op.source_phase_number # NoPhase /\ op.target_phase_number # NoPhase
    /\ op.source_phase_number # op.target_phase_number

MoveOpValid(op) ==
    op.row_id # NoId /\ op.source_phase_number # NoPhase /\ op.target_phase_number # NoPhase

DupOpValid(op) == op.source_row_id # NoId /\ op.target_phase_number # NoPhase

moved_rows(cd) == {op.row_id : op \in {o \in Range(ExplicitOps(cd).row_moves) : MoveOpValid(o)}}

duplicated_rows_SourceOnly(cd) ==
    {op.source_row_id : op \in {o \in Range(ExplicitOps(cd).row_duplicates) : DupOpValid(o)}}

duplicated_rows(cd) ==
    LET ops == {o \in Range(ExplicitOps(cd).row_duplicates) : DupOpValid(o)}
    IN {op.source_row_id : op \in ops} \cup {op.new_row_id : op \in {o \in ops : o.new_row_id # NoId}}

VersionChanges(cd) ==
    IF "version" \in DOMAIN cd /\ cd.version # project.version
    THEN <<Proto("version", [old_version |-> project.version, new_version |-> cd.version])>>
    ELSE <<>>

ExplicitMoveChanges(cd) ==
    LET ops == ExplicitOps(cd).row_moves
    IN Concat([i \in 1..Len(ops) |->
          IF MoveOpValid(ops[i])
          THEN <<Proto("row_move",
                   [row_id |-> ops[i].row_id,
                    source_phase_number |-> ops[i].source_phase_number,
                    target_phase_number |-> ops[i].target_phase_number,
                    target_position |-> ops[i].target_position,
                    source_row_index |-> ops[i].source_row_index])>>
          ELSE <<>>])

ExplicitDuplicateChanges(cd) ==
    LET ops == ExplicitOps(cd).row_duplicates
    IN Concat([i \in 1..Len(ops) |->
          IF DupOpValid(ops[i])
          THEN <<Proto("row_duplicate",
                   [source_row_id |-> ops[i].source_row_id,
                    new_row_id |-> ops[i].new_row_id,
                    target_phase_number |-> ops[i].target_phase_number,
                    target_position |-> ops[i].target_position])>>
          ELSE <<>>])

current_row_ids(phase_number) ==
    {r \in DOMAIN rows : phases[rows[r].phase_id].phase_number = phase_number}

RowData(d) ==
    [role |-> d.role, time |-> d.time, duration |-> d.duration,
     description |-> d.description, script |-> d.script, status |-> d.status]

IsAddedRow_AnyPhase(new_row, phase_number) ==
    new_row.id = NoId \/ new_row.id \notin DOMAIN rows

IsAddedRow(new_row, phase_number) ==
    new_row.id = NoId \/ new_row.id \notin current_row_ids(phase_number)

RowAddChanges_NoSkip(cd, phase_number, new_rows) ==
    Concat([i \in 1..Len(new_rows) |->
       IF IsAddedRow(new_rows[i], phase_number)
       THEN <<Proto("row_add",
                [phase_number |-> phase_number, phase_id |-> PhaseByNumber(phase_number),
                 row_data |-> RowData(new_rows[i])])>>
       ELSE <<>>])

RowAddChanges(cd, phase_number, new_rows) ==
    Concat([i \in 1..Len(new_rows) |->
       IF IsAddedRow(new_rows[i], phase_number) /\ new_rows[i].id \notin duplicated_rows(cd)
       THEN <<Proto("row_add",
                [phase_number |-> phase_number, phase_id |-> PhaseByNumber(phase_number),
                 row_data |-> RowData(new_rows[i])])>>
       ELSE <<>>])

RowModified(current_row, new_row) ==
    \/ current_row.role # new_row.role
    \/ current_row.time # new_row.time
    \/ current_row.duration # new_row.duration
    \/ current_row.description # new_row.description
    \/ current_row.script # new_row.script
    \/ current_row.status # new_row.status

RowUpdateChanges(cd, phase_number, new_rows) ==
    Concat([i \in 1..Len(new_rows) |->
       IF /\ new_rows[i].id # NoId
          /\ new_rows[i].id \in current_row_ids(phase_number)
          /\ RowModified(rows[new_rows[i].id], new_rows[i])
       THEN <<Proto("row_update",
                [row_id |-> new_rows[i].id,
                 old_data |-> RowData(rows[new_rows[i].id]),
                 new_data |-> RowData(new_rows[i])])>>
       ELSE <<>>])

deleted_row_ids_AllPhases(cd, phase_number, new_rows) ==
    ((DOMAIN rows) \ {new_rows[i].id : i \in 1..Len(new_rows)}) \ moved_rows(cd)

deleted_row_ids(cd, phase_number, new_rows) ==
    (current_row_ids(phase_number) \ {new_rows[i].id : i \in 1..Len(new_rows)}) \ moved_rows(cd)

RowDeleteChanges(cd, phase_number, new_rows) ==
    LET ids == SetToSeq(deleted_row_ids(cd, phase_number, new_rows))
    IN [i \in 1..Len(ids) |->
          Proto("row_delete", [row_id |-> ids[i], row_data |-> RowData(rows[ids[i]])])]

PhaseDataChanges(cd, phase_data) ==
    IF phase_data.phase = NoPhase THEN <<>>
    ELSE RowAddChanges(cd, phase_data.phase, phase_data.rows)
         \o RowUpdateChanges(cd, phase_data.phase, phase_data.rows)
         \o RowDeleteChanges(cd, phase_data.phase, phase_data.rows)

TableDataChanges(cd) ==
    IF "table_data" \in DOMAIN cd
    THEN Concat([i \in 1..Len(cd.table_data) |-> PhaseDataChanges(cd, cd.table_data[i])])
    ELSE <<>>

RoleChanges(cd) ==
    IF "roles" \in DOMAIN cd
    THEN LET added == SetToSeqAny(cd.roles \ roles)
             deleted == SetToSeqAny(roles \ cd.roles)
         IN [i \in 1..Len(added) |-> Proto("role_add", [role |-> added[i]])]
            \o [i \in 1..Len(deleted) |-> Proto("role_delete", [role |-> deleted[i]])]
    ELSE <<>>

StructuralTypes == {"row_add", "row_delete", "row_move", "row_duplicate"}

has_structural_changes_Always(protos) == TRUE

has_structural_changes_NoMoves(protos) ==
    \E i \in 1..Len(protos) : protos[i].change_type \in {"row_add", "row_delete"}

has_structural_changes(protos) ==
    \E i \in 1..Len(protos) : protos[i].change_type \in StructuralTypes

SnapshotChanges(cd, protos) ==
    IF has_structural_changes(protos) /\ "table_data" \in DOMAIN cd
    THEN <<Proto("table_data", [table_data |-> cd.table_data])>>
    ELSE <<>>

ScriptData(sc) == [name |-> sc.name, path |-> sc.path, status |-> sc.status]

ScriptChanges(cd) ==
    IF "periodic_scripts" \in DOMAIN cd
    THEN LET new == {sc \in Range(cd.periodic_scripts) : sc.id # NoId}
             newIds == {sc.id : sc \in new}
             byId(id) == LET idx == {j \in 1..Len(cd.periodic_scripts) :
                                        cd.periodic_scripts[j].id = id}
                         IN cd.periodic_scripts[CHOOSE j \in idx : \A k \in idx : k <= j]
             added == SetToSeq(newIds \ DOMAIN scripts)
             modified == SetToSeq({id \in newIds \cap DOMAIN scripts :
                                     ScriptData(scripts[id]) # ScriptData(byId(id))})
             deleted == SetToSeq(DOMAIN scripts \ newIds)
         IN [i \in 1..Len(added) |->
               Proto("script_add", [script_data |-> ScriptData(byId(added[i]))])]
            \o [i \in 1..Len(modified) |->
                  Proto("script_update",
                        [script_id |-> modified[i],
                         old_data |-> ScriptData(scripts[modified[i]]),
                         new_data |-> ScriptData(byId(modified[i]))])]
            \o [i \in 1..Len(deleted) |->
                  Proto("script_delete",
                        [script_id |-> deleted[i], script_data |-> ScriptData(scripts[deleted[i]])])]
    ELSE <<>>

CreatedChanges(cd) ==
    LET structural == VersionChanges(cd) \o ExplicitMoveChanges(cd)
                      \o ExplicitDuplicateChanges(cd) \o TableDataChanges(cd)
        withRoles == structural \o RoleChanges(cd)
    IN withRoles \o SnapshotChanges(cd, withRoles) \o ScriptChanges(cd)

PendingChange(id, submission_id, submitter, proto) ==
    [id |-> id, submission_id |-> submission_id,
     submitted_by |-> submitter.user_name, submitted_by_role |-> submitter.user_role,
     change_type |-> proto.change_type, changes_data |-> proto.changes_data,
     status |-> "pending", reviewed_by |-> NoneVal, reviewed_at |-> NoDate]

CreatePendingChange(submitter, cd) ==
    /\ reqs.submit < MaxSubmissions
    /\ IF submitter.user_name = "" \/ submitter.user_role = ""
       THEN /\ resp' = [status |-> 400]
            /\ UNCHANGED changes
       ELSE LET submission_id == reqs.submit + 1
                protos == CreatedChanges(cd)
                created == [i \in 1..Len(protos) |->
                              PendingChange(Len(changes) + i, submission_id, submitter, protos[i])]
            IN /\ changes' = changes \o created
               /\ resp' = [status |-> 201, submission_id |-> submission_id,
                           created_changes |-> created, count |-> Len(created)]
    /\ last' = [op |-> "create_pending_change", submitter |-> submitter, changes_data |-> cd]
    /\ reqs' = [reqs EXCEPT !.submit = @ + 1]
    /\ UNCHANGED inflight
    /\ UNCHANGED <<now, project, roles, scripts, phases, rows, nextId, logs>>

-----------------------------------------------------------------------------
(* create_phase, delete_phase and delete_row *)

log_phase_add(actor, phase_id, phase_number, epoch) ==
    LogEntry(actor, "phase_add", NoId, [phase_number |-> phase_number], epoch)
        @@ [phase_id |-> phase_id]

log_phase_delete(actor, phase_id, phase_number, epoch) ==
    LogEntry(actor, "phase_delete", NoId, [phase_number |-> phase_number], epoch)
        @@ [phase_id |-> phase_id]

log_row_delete(actor, row_id, phase_number, epoch, row_data, row_position_at_action) ==
    LogEntry(actor, "row_delete", row_id,
             [row_id |-> row_id, phase_number |-> phase_number,
              row_position_at_action |-> row_position_at_action, row_data |-> row_data], epoch)

\* (max_phase or 0) + 1
NextPhaseNumber ==
    IF PhaseNumbers = {} THEN 1
    ELSE (CHOOSE n \in PhaseNumbers : \A m \in PhaseNumbers : m <= n) + 1

CreatePhase(actor, is_active) ==
    /\ reqs.create_phase < MaxPhases
    /\ phases' = phases @@ (nextId.phase :> [phase_number |-> NextPhaseNumber,
                                             is_active |-> is_active])
    /\ nextId' = [nextId EXCEPT !.phase = @ + 1]
    /\ logs' = IF project.manager_role = actor.user_role
               THEN Append(logs, log_phase_add(actor, nextId.phase, NextPhaseNumber,
                                               project.reset_epoch))
               ELSE logs
    /\ resp' = [status |-> 201, phase |-> [id |-> nextId.phase, phase_number |-> NextPhaseNumber]]
    /\ last' = [op |-> "create_phase", actor |-> actor]
    /\ reqs' = [reqs EXCEPT !.create_phase = @ + 1]
    /\ UNCHANGED inflight
    /\ UNCHANGED <<now, project, roles, scripts, rows, changes>>

\* The rows of a phase go with it (cascade='all, delete-orphan').
DeletePhase(phase_id, actor) ==
    /\ reqs.delete_phase < MaxRemovals
    /\ IF phase_id \notin DOMAIN phases
       THEN /\ resp' = [status |-> 404]
            /\ UNCHANGED <<phases, rows, logs>>
       ELSE /\ phases' = [p \in (DOMAIN phases) \ {phase_id} |-> phases[p]]
            /\ rows' = [r \in {x \in DOMAIN rows : rows[x].phase_id # phase_id} |-> rows[r]]
            /\ logs' = IF project.manager_role = actor.user_role
                       THEN Append(logs, log_phase_delete(actor, phase_id,
                                                          phases[phase_id].phase_number,
                                                          project.reset_epoch))
                       ELSE logs
            /\ resp' = [status |-> 200]
    /\ last' = [op |-> "delete_phase", phase_id |-> phase_id, actor |-> actor]
    /\ reqs' = [reqs EXCEPT !.delete_phase = @ + 1]
    /\ UNCHANGED inflight
    /\ UNCHANGED <<now, project, roles, scripts, nextId, changes>>

\* One plus the rows of the phases of a lower number, plus the rows of the
\* same phase with a lower id.
row_position_at_action(row_id) ==
    LET phase_id == rows[row_id].phase_id
        phase_number == phases[phase_id].phase_number
    IN 1 + Cardinality({r \in DOMAIN rows :
                           phases[rows[r].phase_id].phase_number < phase_number})
         + Cardinality({r \in DOMAIN rows : rows[r].phase_id = phase_id /\ r < row_id})

DeleteRow(row_id, actor) ==
    /\ reqs.delete_row < MaxRemovals
    /\ IF row_id \notin DOMAIN rows
       THEN /\ resp' = [status |-> 404]
            /\ UNCHANGED <<rows, logs>>
       ELSE /\ rows' = [r \in (DOMAIN rows) \ {row_id} |-> rows[r]]
            /\ logs' = IF project.manager_role = actor.user_role
                       THEN Append(logs,
                               log_row_delete(actor, row_id,
                                   phases[rows[row_id].phase_id].phase_number,
                                   project.reset_epoch,
                                   [role |-> rows[row_id].role, time |-> rows[row_id].time,
                                    duration |-> rows[row_id].duration,
                                    description |-> rows[row_id].description,
                                    script |-> rows[row_id].script],
                                   row_position_at_action(row_id)))
                       ELSE logs
            /\ resp' = [status |-> 200]
    /\ last' = [op |-> "delete_row", row_id |-> row_id, actor |-> actor]
    /\ reqs' = [reqs EXCEPT !.delete_row = @ + 1]
    /\ UNCHANGED inflight
    /\ UNCHANGED <<now, project, roles, scripts, phases, nextId, changes>>

-----------------------------------------------------------------------------
(* accept_pending_change and decline_pending_change *)

\* The database as one handler sees and writes it.
Db == [project |-> project, roles |-> roles, scripts |-> scripts, phases |-> phases,
       rows |-> rows, nextId |-> nextId, changes |-> changes]

PendingIndex_AnyStatus(change_id) ==
    IF \E i \in 1..Len(changes) : changes[i].id = change_id
    THEN CHOOSE i \in 1..Len(changes) : changes[i].id = change_id
    ELSE 0

\* first(): the pending change of that id, 0 when there is none (404).
PendingIndex(change_id) ==
    IF \E i \in 1..Len(changes) : changes[i].id = change_id /\ changes[i].status = "pending"
    THEN CHOOSE i \in 1..Len(changes) : changes[i].id = change_id /\ changes[i].status = "pending"
    ELSE 0

\* The pending table_data change of a submission, 0 when there is none.
TableDataIndex(chs, submission_id) ==
    LET S == {i \in 1..Len(chs) : /\ chs[i].submission_id = submission_id
                                 /\ chs[i].change_type = "table_data"
                                 /\ chs[i].status = "pending"}
    IN IF S = {} THEN 0 ELSE CHOOSE i \in S : \A j \in S : i <= j

PhaseOfNumber(ps, n) ==
    IF \E p \in DOMAIN ps : ps[p].phase_number = n
    THEN CHOOSE p \in DOMAIN ps : ps[p].phase_number = n
    ELSE NoId

ApplyVersion(db, cd) == [db EXCEPT !.project.version = cd.new_version]

ApplyRowAdd(db, cd) ==
    LET known == PhaseOfNumber(db.phases, cd.phase_number)
        create == cd.phase_id = NoId /\ known = NoId
        phase_id == IF cd.phase_id # NoId THEN cd.phase_id
                    ELSE IF known # NoId THEN known ELSE db.nextId.phase
        row == [phase_id |-> phase_id, role |-> cd.row_data.role, time |-> cd.row_data.time,
                duration |-> cd.row_data.duration, description |-> cd.row_data.description,
                script |-> cd.row_data.script, status |-> cd.row_data.status,
                script_result |-> NoneVal, updated_at |-> DbDatetime(utcnow)]
    IN [db EXCEPT
          !.phases = IF create
                     THEN @ @@ (db.nextId.phase :> [phase_number |-> cd.phase_number,
                                                    is_active |-> FALSE])
                     ELSE @,
          !.rows = @ @@ (db.nextId.row :> row),
          !.nextId = [@ EXCEPT !.row = @ + 1,
                               !.phase = IF create THEN @ + 1 ELSE @]]

ApplyRowUpdate_Touch(db, cd) ==
    IF cd.row_id \in DOMAIN db.rows
    THEN [db EXCEPT !.rows[cd.row_id] =
            [@ EXCEPT !.role = cd.new_data.role, !.time = cd.new_data.time,
                      !.duration = cd.new_data.duration,
                      !.description = cd.new_data.description,
                      !.script = cd.new_data.script, !.status = cd.new_data.status,
                      !.updated_at = DbDatetime(utcnow)]]
    ELSE db

ApplyRowUpdate(db, cd) ==
    IF cd.row_id \in DOMAIN db.rows
    THEN [db EXCEPT !.rows[cd.row_id] =
            [@ EXCEPT !.role = cd.new_data.role, !.time = cd.new_data.time,
                      !.duration = cd.new_data.duration,
                      !.description = cd.new_data.description,
                      !.script = cd.new_data.script, !.status = cd.new_data.status]]
    ELSE db

ApplyRowDelete(db, cd) ==
    [db EXCEPT !.rows = [r \in (DOMAIN @) \ {cd.row_id} |-> @[r]]]

ApplyRoleAdd(db, cd) == [db EXCEPT !.roles = @ \cup {cd.role}]

ApplyRoleDelete(db, cd) == [db EXCEPT !.roles = @ \ {cd.role}]

ApplyScriptAdd(db, cd) ==
    [db EXCEPT !.scripts = @ @@ (db.nextId.script :> cd.script_data),
               !.nextId.script = @ + 1]

ApplyScriptUpdate(db, cd) ==
    IF cd.script_id \in DOMAIN db.scripts
    THEN [db EXCEPT !.scripts[cd.script_id] = cd.new_data]
    ELSE db

ApplyScriptDelete(db, cd) ==
    [db EXCEPT !.scripts = [x \in (DOMAIN @) \ {cd.script_id} |-> @[x]]]

\* The first row of the list whose id reads as the temporary id gets the new id.
RewriteTempId(phase_rows, temp_id, new_id) ==
    LET S == {j \in 1..Len(phase_rows) : phase_rows[j].id = temp_id}
    IN IF S = {} THEN phase_rows
       ELSE [phase_rows EXCEPT ![CHOOSE j \in S : \A k \in S : j <= k].id = new_id]

\* Only the first entry of the target phase number is rewritten.
RewriteTableData(table_data, target_phase_number, temp_id, new_id) ==
    LET S == {k \in 1..Len(table_data) : table_data[k].phase = target_phase_number}
    IN IF S = {} THEN table_data
       ELSE [table_data EXCEPT ![CHOOSE k \in S : \A j \in S : k <= j].rows =
                RewriteTempId(@, temp_id, new_id)]

DuplicateNotFound(db, cd) ==
    \/ cd.source_row_id \notin DOMAIN db.rows
    \/ PhaseOfNumber(db.phases, cd.target_phase_number) = NoId

ApplyRowDuplicate_SourcePhase(db, cd, submission_id) ==
    LET source_row == db.rows[cd.source_row_id]
        new_id == db.nextId.row
        new_row == [source_row EXCEPT !.script_result = NoneVal,
                                      !.updated_at = DbDatetime(utcnow)]
        t == TableDataIndex(db.changes, submission_id)
    IN [db EXCEPT
          !.rows = @ @@ (new_id :> new_row),
          !.nextId.row = @ + 1,
          !.changes = IF t = 0 \/ @[t].changes_data.table_data = <<>> THEN @
                      ELSE [@ EXCEPT ![t].changes_data.table_data =
                              RewriteTableData(@, cd.target_phase_number, cd.new_row_id, new_id)]]

ApplyRowDuplicate(db, cd, submission_id) ==
    LET source_row == db.rows[cd.source_row_id]
        new_id == db.nextId.row
        new_row == [source_row EXCEPT
                      !.phase_id = PhaseOfNumber(db.phases, cd.target_phase_number),
                      !.script_result = NoneVal,
                      !.updated_at = DbDatetime(utcnow)]
        t == TableDataIndex(db.changes, submission_id)
    IN [db EXCEPT
          !.rows = @ @@ (new_id :> new_row),
          !.nextId.row = @ + 1,
          !.changes = IF t = 0 \/ @[t].changes_data.table_data = <<>> THEN @
                      ELSE [@ EXCEPT ![t].changes_data.table_data =
                              RewriteTableData(@, cd.target_phase_number, cd.new_row_id, new_id)]]

MoveNotFound_RowOnly(db, cd) == cd.row_id \notin DOMAIN db.rows

MoveNotFound(db, cd) ==
    \/ cd.row_id \notin DOMAIN db.rows
    \/ PhaseOfNumber(db.phases, cd.target_phase_number) = NoId

ApplyRowMove_WholePhase(db, cd) ==
    IF cd.source_phase_number = cd.target_phase_number THEN db
    ELSE [db EXCEPT !.rows =
            [r \in DOMAIN @ |->
               IF @[r].phase_id = @[cd.row_id].phase_id
               THEN [@[r] EXCEPT !.phase_id = PhaseOfNumber(db.phases, cd.target_phase_number),
                                 !.updated_at = DbDatetime(utcnow)]
               ELSE @[r]]]

ApplyRowMove(db, cd) ==
    IF cd.source_phase_number = cd.target_phase_number THEN db
    ELSE [db EXCEPT !.rows[cd.row_id] =
            [@ EXCEPT !.phase_id = PhaseOfNumber(db.phases, cd.target_phase_number),
                      !.updated_at = DbDatetime(utcnow)]]

NotFound(db, ch) ==
    \/ ch.change_type = "row_duplicate" /\ DuplicateNotFound(db, ch.changes_data)
    \/ ch.change_type = "row_move" /\ MoveNotFound(db, ch.changes_data)

ApplyChange(db, ch) ==
    LET cd == ch.changes_data
        t == ch.change_type
    IN CASE t = "version" -> ApplyVersion(db, cd)
         [] t = "row_add" -> ApplyRowAdd(db, cd)
         [] t = "row_update" -> ApplyRowUpdate(db, cd)
         [] t = "row_delete" -> ApplyRowDelete(db, cd)
         [] t = "role_add" -> ApplyRoleAdd(db, cd)
         [] t = "role_delete" -> ApplyRoleDelete(db, cd)
         [] t = "script_add" -> ApplyScriptAdd(db, cd)
         [] t = "script_update" -> ApplyScriptUpdate(db, cd)
         [] t = "script_delete" -> ApplyScriptDelete(db, cd)
         [] t = "row_duplicate" -> ApplyRowDuplicate(db, cd, ch.submission_id)
         [] t = "row_move" -> ApplyRowMove(db, cd)
         [] OTHER -> db

\* status and, for a non-empty reviewer name, the reviewer fields.
Reviewed(ch, status, reviewed_by) ==
    IF reviewed_by # ""
    THEN [ch EXCEPT !.status = status, !.reviewed_by = reviewed_by,
                    !.reviewed_at = DbDatetime(utcnow)]
    ELSE [ch EXCEPT !.status = status]

OrderTypes == {"row_move", "row_duplicate"}

ReviewInLockstep_Never(chs, ch, status, reviewed_by) == chs

ReviewInLockstep_AnyType(chs, ch, status, reviewed_by) ==
    LET t == TableDataIndex(chs, ch.submission_id)
    IN IF t # 0
       THEN [chs EXCEPT ![t] = Reviewed(@, status, reviewed_by)]
       ELSE chs

\* The table_data change of the submission follows a row_move or row_duplicate.
ReviewInLockstep(chs, ch, status, reviewed_by) ==
    LET t == TableDataIndex(chs, ch.submission_id)
    IN IF ch.change_type \in OrderTypes /\ t # 0
       THEN [chs EXCEPT ![t] = Reviewed(@, status, reviewed_by)]
       ELSE chs

DbRowDict(rs, id) ==
    [id |-> id, role |-> rs[id].role, time |-> rs[id].time, duration |-> rs[id].duration,
     description |-> rs[id].description, script |-> rs[id].script, status |-> rs[id].status,
     script_result |-> rs[id].script_result]

ContentMatches(row, row_data) ==
    /\ row.role = row_data.role
    /\ row.time = row_data.time
    /\ row.duration = row_data.duration
    /\ row.description = row_data.description
    /\ row.script = row_data.script
    /\ row.status = row_data.status

\* One row of the snapshot, as the response lists it: by id, else by content
\* among the rows of the phase, else not at all.
RebuiltRow(rs, phase_id, row_data) ==
    IF row_data.id \in DOMAIN rs THEN <<DbRowDict(rs, row_data.id)>>
    ELSE LET S == {r \in DOMAIN rs : rs[r].phase_id = phase_id /\ ContentMatches(rs[r], row_data)}
         IN IF S = {} THEN <<>>
            ELSE <<DbRowDict(rs, CHOOSE r \in S : \A q \in S : r <= q)>>

RebuiltTable(db, table_data) ==
    [k \in 1..Len(table_data) |->
        LET phase_id == PhaseOfNumber(db.phases, table_data[k].phase)
        IN IF phase_id = NoId THEN table_data[k]
           ELSE [phase |-> table_data[k].phase, id |-> phase_id,
                 is_active |-> db.phases[phase_id].is_active,
                 rows |-> Concat([i \in 1..Len(table_data[k].rows) |->
                                     RebuiltRow(db.rows, phase_id, table_data[k].rows[i])])]]

\* <<row id, position>> in the order the timestamps are written.
TimestampWrites(db, table) ==
    Concat([k \in 1..Len(table) |->
        IF PhaseOfNumber(db.phases, table[k].phase) = NoId THEN <<>>
        ELSE Concat([i \in 1..Len(table[k].rows) |->
                IF table[k].rows[i].id # NoId /\ table[k].rows[i].id \in DOMAIN db.rows
                THEN <<<<table[k].rows[i].id, i - 1>>>>
                ELSE <<>>])])

\* updated_at = base_time + position seconds; the last write to a row stands.
RewriteTimestamps(db, table) ==
    LET w == TimestampWrites(db, table)
    IN [r \in DOMAIN db.rows |->
          LET S == {i \in 1..Len(w) : w[i][1] = r}
          IN IF S = {} THEN db.rows[r]
             ELSE [db.rows[r] EXCEPT !.updated_at =
                     DbDatetime(utcnow + Seconds(w[CHOOSE i \in S : \A j \in S : j <= i][2]))]]

remaining_pending(chs, submission_id) ==
    Cardinality({i \in 1..Len(chs) : /\ chs[i].submission_id = submission_id
                                     /\ chs[i].status = "pending"
                                     /\ chs[i].change_type # "table_data"})

\* jsonify(obj): a JSON object.  jsonify(obj, code): a JSON array of the two.
JsonObject(obj) == [kind |-> "object", value |-> obj]

JsonArray(items) == [kind |-> "array", value |-> items]

\* str.strip() on the reviewer names the requests carry.
Strip(s) == IF s = " " THEN "" ELSE s

\* Row.phase_id is a foreign key into phases (module.py): MySQL refuses a row
\* whose phase does not exist, and the handler answers 500 after a rollback.
IntegrityError(db, ch) ==
    /\ ch.change_type = "row_add"
    /\ ch.changes_data.phase_id # NoId
    /\ ch.changes_data.phase_id \notin DOMAIN db.phases

\* The store after each db.session.commit() of the handler, in order: the
\* change applied, the change marked accepted, the table_data record marked
\* with it, the timestamps rewritten in the order of the snapshot.
AcceptStages(idx, reviewed_by) ==
    LET ch == changes[idx]
        applied == ApplyChange(Db, ch)
        marked == [applied EXCEPT !.changes[idx] = Reviewed(@, "accepted", reviewed_by)]
        t == IF ch.change_type \in OrderTypes
             THEN TableDataIndex(marked.changes, ch.submission_id) ELSE 0
        together == [marked EXCEPT
                       !.changes = ReviewInLockstep(@, ch, "accepted", reviewed_by)]
        reorder == t # 0 /\ marked.changes[t].changes_data.table_data # <<>>
        table == IF reorder
                 THEN RebuiltTable(applied, marked.changes[t].changes_data.table_data)
                 ELSE <<>>
        ordered == [together EXCEPT
                      !.rows = IF reorder THEN RewriteTimestamps(applied, table) ELSE @]
    IN <<applied, marked, together, ordered>>

\* The response's table_data key is present when the value is not null.
AcceptResponse(idx, reviewed_by) ==
    LET ch == changes[idx]
        stages == AcceptStages(idx, reviewed_by)
        t == IF ch.change_type \in OrderTypes
             THEN TableDataIndex(stages[2].changes, ch.submission_id) ELSE 0
        table_data == stages[2].changes[t].changes_data.table_data
        remaining == remaining_pending(stages[4].changes, ch.submission_id)
        body == [message |-> "Change accepted", submission_id |-> ch.submission_id,
                 remaining_pending |-> remaining, all_processed |-> (remaining = 0)]
    IN [status |-> 200,
        json |-> JsonObject(IF t # 0
                            THEN body @@ [table_data |->
                                            IF table_data # <<>>
                                            THEN RebuiltTable(stages[1], table_data)
                                            ELSE <<>>]
                            ELSE body)]

StoreBecomes(db) ==
    /\ project' = db.project
    /\ roles' = db.roles
    /\ scripts' = db.scripts
    /\ phases' = db.phases
    /\ rows' = db.rows
    /\ nextId' = db.nextId
    /\ changes' = db.changes

AcceptPendingChange(change_id, reviewer) ==
    LET idx == PendingIndex(change_id)
        reviewed_by == Strip(reviewer)
    IN /\ last' = [op |-> "accept_pending_change", change_id |-> change_id,
                   reviewed_by |-> reviewer]
       /\ UNCHANGED <<now, logs, reqs, inflight>>
       /\ IF idx = 0 \/ NotFound(Db, changes[idx])
          THEN /\ resp' = [status |-> 404]
               /\ UNCHANGED <<project, roles, scripts, phases, rows, nextId, changes>>
          ELSE IF IntegrityError(Db, changes[idx])
          THEN /\ resp' = [status |-> 500]
               /\ UNCHANGED <<project, roles, scripts, phases, rows, nextId, changes>>
          ELSE /\ StoreBecomes(AcceptStages(idx, reviewed_by)[4])
               /\ resp' = AcceptResponse(idx, reviewed_by)

\* The handler when a statement raises after `commits` of its commits went
\* through (a lost connection, a lock timeout): the except branch rolls back
\* what is not committed yet and answers 500.
AcceptPendingChangeFailing(change_id, reviewer, commits) ==
    LET idx == PendingIndex(change_id)
        reviewed_by == Strip(reviewer)
    IN /\ reqs.failures < MaxFailures
       /\ idx # 0
       /\ ~NotFound(Db, changes[idx])
       /\ ~IntegrityError(Db, changes[idx])
       /\ last' = [op |-> "accept_pending_change", change_id |-> change_id,
                   reviewed_by |-> reviewer]
       /\ reqs' = [reqs EXCEPT !.failures = @ + 1]
       /\ UNCHANGED inflight
       /\ UNCHANGED <<now, logs>>
       /\ StoreBecomes(IF commits = 0 THEN Db ELSE AcceptStages(idx, reviewed_by)[commits])
       /\ resp' = [status |-> 500]

DeclinePendingChange(change_id, reviewer) ==
    LET idx == PendingIndex(change_id)
        reviewed_by == Strip(reviewer)
    IN /\ last' = [op |-> "decline_pending_change", change_id |-> change_id,
                   reviewed_by |-> reviewer]
       /\ UNCHANGED <<now, project, roles, scripts, phases, rows, nextId, logs, reqs, inflight>>
       /\ IF idx = 0
          THEN /\ resp' = [status |-> 404]
               /\ UNCHANGED changes
          ELSE LET ch == changes[idx]
                   marked == [changes EXCEPT ![idx] = Reviewed(@, "declined", reviewed_by)]
                   chs == ReviewInLockstep(marked, ch, "declined", reviewed_by)
                   remaining == remaining_pending(chs, ch.submission_id)
               IN /\ changes' = chs
                  /\ resp' = [status |-> 200,
                              json |-> JsonArray(
                                 <<[message |-> "Change declined",
                                    submission_id |-> ch.submission_id,
                                    remaining_pending |-> remaining,
                                    all_processed |-> (remaining = 0)], 200>>)]

-----------------------------------------------------------------------------
(* The clock *)

Tick ==
    /\ now < MaxTime
    /\ now' = now + 1
    /\ last' = [op |-> "tick"]
    /\ UNCHANGED <<project, roles, scripts, phases, rows, nextId, changes, logs, resp, reqs, inflight>>

-----------------------------------------------------------------------------
(* Request inputs *)

KeyDomain(k) ==
    CASE k = "role" -> RoleNames
      [] k = "time" -> Times
      [] k = "duration" -> Durations
      [] k = "description" -> Descriptions
      [] k = "script" -> ScriptPaths
      [] k = "status" -> Statuses
      [] k = "scriptResult" -> ScriptResults

PayloadKeySets ==
    {{"status"}, {"role"}, {"time"}, {"duration"}, {"description"}, {"script"},
     {"scriptResult"}, {"role", "description"}, {"status", "description"}}

PayloadsOver(K) ==
    {d \in [K -> UNION {KeyDomain(k) : k \in K}] : \A k \in K : d[k] \in KeyDomain(k)}

EchoPayloads(row) ==
    {[role |-> row.role, time |-> row.time, duration |-> row.duration,
      description |-> row.description, script |-> row.script, status |-> s,
      scriptResult |-> row.script_result] : s \in Statuses}

UpdatePayloads(row) == UNION {PayloadsOver(K) : K \in PayloadKeySets} \cup EchoPayloads(row)

LogFilters ==
    {[action_type |-> "", user_name |-> "", start_date |-> NoDate, end_date |-> NoDate],
     [action_type |-> "row_edit", user_name |-> "ann", start_date |-> 0, end_date |-> TicksPerSecond]}

EpochArgs == {NoEpoch, 0}

-----------------------------------------------------------------------------
(* The project after import_project: two phases, three rows written in the  *)
(* same second.                                                             *)

NewRow(phase_id, role, description, t) ==
    [phase_id |-> phase_id, role |-> role, time |-> "t1", duration |-> "u1",
     description |-> description, script |-> "", status |-> "N/A",
     script_result |-> NoneVal, updated_at |-> t]

\* The store after the project, two phases, three rows and one script were
\* created at time 0; the requests start at time t.
InitialRows ==
    (1 :> NewRow(1, "r1", "d1", 0)) @@ (2 :> NewRow(1, "r2", "d2", 0)) @@
    (3 :> NewRow(2, "r1", "d1", 0))

InitStore(t, rs) ==
    /\ now = t
    /\ project = [version |-> "v1.0.0", manager_role |-> ManagerRole, reset_epoch |-> 0]
    /\ roles = {"r1", "r2"}
    /\ scripts = (1 :> [name |-> "n1", path |-> "p1", status |-> FALSE])
    /\ phases = (1 :> [phase_number |-> 1, is_active |-> FALSE]) @@
                (2 :> [phase_number |-> 2, is_active |-> FALSE])
    /\ rows = rs
    /\ nextId = [phase |-> 3, row |-> 4, script |-> 2]
    /\ changes = <<>>
    /\ logs = <<>>
    /\ resp = [status |-> 0]
    /\ last = [op |-> "init"]
    /\ reqs = [update_row |-> 0, reset_statuses |-> 0, submit |-> 0, failures |-> 0,
               delete_row |-> 0, delete_phase |-> 0, create_phase |-> 0,
               update_table |-> 0]
    /\ inflight = <<>>

Init == InitStore(0, InitialRows)

-----------------------------------------------------------------------------
(* What a client can submit: the table it loaded, after one edit *)

TempIds == {1001, 1002}    \* client-side ids (millisecond timestamps in the client)

RemoveAt(s, i) == SubSeq(s, 1, i - 1) \o SubSeq(s, i + 1, Len(s))

InsertAt(s, j, x) == SubSeq(s, 1, j - 1) \o <<x>> \o SubSeq(s, j, Len(s))

Perms(s) == {[i \in 1..Len(s) |-> s[f[i]]] : f \in Permutations(1..Len(s))}

CurrentTable ==
    LET nums == SetToSeq(PhaseNumbers)
    IN [k \in 1..Len(nums) |->
          LET ids == PhaseRows(PhaseByNumber(nums[k]))
          IN [phase |-> nums[k], rows |-> [i \in 1..Len(ids) |-> RowToDict(ids[i])]]]

CurrentScripts ==
    LET ids == SetToSeq(DOMAIN scripts)
    IN [i \in 1..Len(ids) |-> [id |-> ids[i], name |-> scripts[ids[i]].name,
                               path |-> scripts[ids[i]].path, status |-> scripts[ids[i]].status]]

FreshRowData ==
    [role |-> "r2", time |-> "t2", duration |-> "u1", description |-> "d1",
     script |-> "", status |-> "N/A"]

NewRowDicts ==
    {[id |-> t, role |-> c.role, time |-> c.time, duration |-> c.duration,
      description |-> c.description, script |-> c.script, status |-> c.status] :
        t \in {1001, NoId}, c \in {RowData(rows[r]) : r \in DOMAIN rows} \cup {FreshRowData}}

PermutedTables(T) ==
    {[T EXCEPT ![k].rows = p] : <<k, p>> \in
        UNION {{<<k, p>> : p \in Perms(T[k].rows)} : k \in 1..Len(T)}}

RemovedTables(T) ==
    {[T EXCEPT ![ki[1]].rows = RemoveAt(@, ki[2])] : ki \in
        UNION {{<<k, i>> : i \in 1..Len(T[k].rows)} : k \in 1..Len(T)}}

MovedTables(T) ==
    UNION {UNION {{[T EXCEPT ![ki[1]].rows = RemoveAt(@, ki[2]),
                             ![k2].rows = InsertAt(@, j, T[ki[1]].rows[ki[2]])] :
                     j \in 1..(Len(T[k2].rows) + 1)} :
                  k2 \in (1..Len(T)) \ {ki[1]}} :
           ki \in UNION {{<<k, i>> : i \in 1..Len(T[k].rows)} : k \in 1..Len(T)}}

InsertedTables(T) ==
    UNION {UNION {{[T EXCEPT ![k].rows = InsertAt(@, j, r)] : r \in NewRowDicts} :
                  j \in 1..(Len(T[k].rows) + 1)} : k \in 1..Len(T)}

EditedTables(T) ==
    UNION {UNION {{[T EXCEPT ![ki[1]].rows[ki[2]][f] = v] : v \in KeyDomain(f)} :
                  f \in ContentFields \cup {"status"}} :
           ki \in UNION {{<<k, i>> : i \in 1..Len(T[k].rows)} : k \in 1..Len(T)}}

OmittedTables(T) == {RemoveAt(T, k) : k \in 1..Len(T)}

NewPhaseTables(T) ==
    {Append(T, [phase |-> 3, rows |-> <<r>>]) : r \in NewRowDicts}

EditedOnce(T) ==
    PermutedTables(T) \cup RemovedTables(T) \cup MovedTables(T) \cup InsertedTables(T)
    \cup EditedTables(T) \cup OmittedTables(T) \cup NewPhaseTables(T)

MoveOp(row_id, source, target) ==
    [row_id |-> row_id, source_phase_number |-> source, target_phase_number |-> target,
     target_position |-> 0, source_row_index |-> 0]

DupOp(source_row_id, new_row_id, target) ==
    [source_row_id |-> source_row_id, new_row_id |-> new_row_id,
     target_phase_number |-> target, target_position |-> 0]

MoveHints ==
    {MoveOp(r, phases[rows[r].phase_id].phase_number, t) : r \in DOMAIN rows, t \in PhaseNumbers}
    \cup {MoveOp(NoId, 1, 1), MoveOp(1, 1, NoPhase)}

DupHints ==
    {DupOp(r, n, t) : r \in DOMAIN rows, n \in {1001, NoId}, t \in PhaseNumbers}
    \cup {DupOp(NoId, 1001, 1), DupOp(1, 1001, NoPhase)}

ExplicitHints ==
    {[row_moves |-> <<>>, row_duplicates |-> <<>>]}
    \cup {[row_moves |-> <<m>>, row_duplicates |-> <<>>] : m \in MoveHints}
    \cup {[row_moves |-> <<>>, row_duplicates |-> <<d>>] : d \in DupHints}

TableSubmissions(T) ==
    {[table_data |-> t] : t \in EditedOnce(T)}
    \cup {[table_data |-> t, explicit_operations |-> e] : t \in EditedOnce(T), e \in ExplicitHints}

MetaSubmissions(T) ==
    {[version |-> v, roles |-> rs, periodic_scripts |-> ps, table_data |-> T] :
        v \in {project.version, "v2.0.0"},
        rs \in {roles, roles \cup {"r3"}, roles \ {"r1"}},
        ps \in {CurrentScripts, <<>>,
                [i \in 1..Len(CurrentScripts) |-> [CurrentScripts[i] EXCEPT !.status = TRUE]],
                Append(CurrentScripts, [id |-> 1001, name |-> "n2", path |-> "p2", status |-> FALSE])}}
    \cup {[version |-> v] : v \in {project.version, "v2.0.0"}}
    \cup {[roles |-> roles], [periodic_scripts |-> CurrentScripts]}

Submitters == {[user_name |-> "bob", user_role |-> "operator"],
               [user_name |-> "", user_role |-> "operator"]}

\* One row edited and moved, within its phase or to the head of another
\* one, with the move declared.
EditedMoveSubmissions(T) ==
    UNION {UNION {{[table_data |->
                       IF k2 = ki[1]
                       THEN [T EXCEPT ![k2].rows = InsertAt(RemoveAt(@, ki[2]), j,
                                [T[k2].rows[ki[2]] EXCEPT !.description =
                                    IF @ = "d1" THEN "d2" ELSE "d1"])]
                       ELSE [T EXCEPT ![ki[1]].rows = RemoveAt(@, ki[2]),
                                      ![k2].rows = InsertAt(@, 1,
                                         [T[ki[1]].rows[ki[2]] EXCEPT !.description =
                                             IF @ = "d1" THEN "d2" ELSE "d1"])],
                    explicit_operations |->
                       [row_moves |-> <<MoveOp(T[ki[1]].rows[ki[2]].id, T[ki[1]].phase, T[k2].phase)>>,
                        row_duplicates |-> <<>>]] :
                     j \in IF k2 = ki[1] THEN (1..Len(T[k2].rows)) \ {ki[2]} ELSE {1}} :
                  k2 \in 1..Len(T)} :
           ki \in UNION {{<<k, i>> : i \in 1..Len(T[k].rows)} : k \in 1..Len(T)}}

\* Explicit operations without a snapshot.
HintSubmissions == {[explicit_operations |-> e] : e \in ExplicitHints}

DiffSubmissions(T) ==
    TableSubmissions(T) \cup MetaSubmissions(T) \cup EditedMoveSubmissions(T)
    \cup HintSubmissions

\* The diff reads the store and the request only, and a submission leaves the
\* store as it is: the submissions are examined one at a time.
DoCreatePendingChangeDiff ==
    /\ reqs.submit = 0
    /\ \E T \in {CurrentTable} :
         \E submitter \in Submitters :
           \E cd \in (IF submitter.user_name = "" THEN {[table_data |-> T]}
                      ELSE DiffSubmissions(T)) :
             CreatePendingChange(submitter, cd)

StoreLayouts ==
    {InitialRows,
     (1 :> NewRow(1, "r1", "d1", 0)) @@ (2 :> NewRow(1, "r2", "d2", 0)) @@ (3 :> NewRow(1, "r1", "d1", 0)),
     (1 :> NewRow(1, "r1", "d1", TicksPerSecond)) @@ (2 :> NewRow(1, "r2", "d2", 0))
        @@ (3 :> NewRow(2, "r2", "d2", 0))}

InitDiff == \E rs \in StoreLayouts : InitStore(TicksPerSecond, rs)

NextDiff == DoCreatePendingChangeDiff

SpecDiff == InitDiff /\ [][NextDiff]_vars

DoUpdateRow == \E row_id \in DOMAIN rows : \E actor \in Actors :
                 \E data \in UpdatePayloads(rows[row_id]) : UpdateRow(row_id, data, actor)

DoResetAllStatuses == \E actor \in Actors : ResetAllStatuses(actor)

DoGetActionLogs == \E user_role \in {a.user_role : a \in Actors} : \E filters \in LogFilters :
                     \E e \in EpochArgs : GetActionLogs(user_role, filters, e)

NextAudit == Tick \/ DoUpdateRow \/ DoResetAllStatuses \/ DoGetActionLogs

SpecAudit == Init /\ [][NextAudit]_vars

-----------------------------------------------------------------------------
(* Submission and review, with direct edits in between *)

Swapped(T, k) == [T EXCEPT ![k].rows = <<T[k].rows[2], T[k].rows[1]>>]

NoHints == [row_moves |-> <<>>, row_duplicates |-> <<>>]

\* Submissions that change the order of rows: a reordering, a move to another
\* phase and a duplication, each declared in explicit_operations.
OrderSubmissions(T) ==
    {[table_data |-> Swapped(T, 1),
      explicit_operations |-> [NoHints EXCEPT !.row_moves = <<MoveOp(T[1].rows[1].id, 1, 1)>>]],
     [table_data |-> [T EXCEPT ![1].rows = Tail(@), ![2].rows = <<T[1].rows[1]>> \o @],
      explicit_operations |-> [NoHints EXCEPT !.row_moves = <<MoveOp(T[1].rows[1].id, 1, 2)>>]],
     [table_data |-> [T EXCEPT ![1].rows = <<[T[2].rows[1] EXCEPT !.id = 1001]>> \o @],
      explicit_operations |->
         [NoHints EXCEPT !.row_duplicates = <<DupOp(T[2].rows[1].id, 1001, 1)>>]]}

\* The submissions a reviewer works through: those, an edit, a deletion and an
\* addition in one request, and a version with a role.
ReviewSubmissions(T) ==
    OrderSubmissions(T) \cup
    {[table_data |-> [T EXCEPT ![1].rows = <<[T[1].rows[1] EXCEPT !.description = "d2"]>>,
                               ![2].rows = @ \o <<FreshRowData @@ [id |-> NoId]>>]],
     [version |-> "v2.0.0", roles |-> roles \cup {"r3"}]}

Reviewers == {"ann", " "}

Operator == [user_name |-> "bob", user_role |-> "operator"]

Manager == [user_name |-> "ann", user_role |-> ManagerRole]

LoadedTable ==
    /\ Len(CurrentTable) = 2
    /\ Len(CurrentTable[1].rows) = 2
    /\ Len(CurrentTable[2].rows) = 1

DoCreatePendingChange ==
    /\ LoadedTable
    /\ \E T \in {CurrentTable} : \E cd \in ReviewSubmissions(T) : CreatePendingChange(Operator, cd)

DoAcceptPendingChange ==
    \E change_id \in 1..Len(changes) : \E reviewer \in Reviewers :
       AcceptPendingChange(change_id, reviewer)

DoDeclinePendingChange ==
    \E change_id \in 1..Len(changes) : \E reviewer \in Reviewers :
       DeclinePendingChange(change_id, reviewer)

InitReview == InitStore(TicksPerSecond, InitialRows)

Next ==
    \/ Tick
    \/ DoCreatePendingChange
    \/ DoAcceptPendingChange
    \/ DoDeclinePendingChange

Spec == InitReview /\ [][Next]_vars

-----------------------------------------------------------------------------
(* Direct edits of rows whose order a review has rewritten *)

DirectPayloads(row) ==
    {[description |-> IF row.description = "d1" THEN "d2" ELSE "d1"],
     [status |-> IF row.status = "Passed" THEN "Failed" ELSE "Passed"],
     [role |-> row.role, time |-> row.time, duration |-> row.duration,
      description |-> row.description, script |-> row.script,
      status |-> IF row.status = "Passed" THEN "Failed" ELSE "Passed"]}

DoCreateOrderChange ==
    /\ LoadedTable
    /\ \E T \in {CurrentTable} : \E cd \in OrderSubmissions(T) : CreatePendingChange(Operator, cd)

DoAcceptOrderChange ==
    \E change_id \in 1..Len(changes) : AcceptPendingChange(change_id, "ann")

DoUpdateRowDirect ==
    \E row_id \in DOMAIN rows : \E data \in DirectPayloads(rows[row_id]) :
       UpdateRow(row_id, data, Manager)

NextOrder ==
    \/ Tick
    \/ DoCreateOrderChange
    \/ DoAcceptOrderChange
    \/ DoUpdateRowDirect

SpecOrder == InitReview /\ [][NextOrder]_vars

-----------------------------------------------------------------------------
(* Review with a statement of the accept handler failing *)

\* The commits of the handler that can precede the failure.
CommitsBeforeFailure == 0..3

DoAcceptPendingChangeFailing ==
    \E change_id \in 1..Len(changes) : \E commits \in CommitsBeforeFailure :
       AcceptPendingChangeFailing(change_id, "ann", commits)

NextFault ==
    \/ DoCreatePendingChange
    \/ DoAcceptOrderChange
    \/ DoAcceptPendingChangeFailing

SpecFault == InitReview /\ [][NextFault]_vars

-----------------------------------------------------------------------------
(* Review of a submission after the store has moved on: between the         *)
(* submission and the accept a status is set, a row or a phase is deleted,  *)
(* a phase is created.                                                      *)

\* An edit with a deletion; a declared move to phase 2 next to an edit of the
\* row left behind; a declared reordering; a declared duplicate into phase 2;
\* a new row in phase 2 with a new row in a new phase 3.
DriftSubmissions(T) ==
    {[table_data |-> [T EXCEPT ![1].rows = <<[T[1].rows[1] EXCEPT !.description = "d2"]>>]],
     [table_data |-> [T EXCEPT ![1].rows = <<[T[1].rows[2] EXCEPT !.description = "d1"]>>,
                               ![2].rows = <<T[1].rows[1]>> \o @],
      explicit_operations |-> [NoHints EXCEPT !.row_moves = <<MoveOp(T[1].rows[1].id, 1, 2)>>]],
     [table_data |-> Swapped(T, 1),
      explicit_operations |-> [NoHints EXCEPT !.row_moves = <<MoveOp(T[1].rows[1].id, 1, 1)>>]],
     [table_data |-> [T EXCEPT ![2].rows = @ \o <<[T[1].rows[1] EXCEPT !.id = 1001]>>],
      explicit_operations |->
         [NoHints EXCEPT !.row_duplicates = <<DupOp(T[1].rows[1].id, 1001, 2)>>]],
     [table_data |-> Append([T EXCEPT ![2].rows = @ \o <<FreshRowData @@ [id |-> NoId]>>],
                            [phase |-> 3, rows |-> <<FreshRowData @@ [id |-> NoId]>>])]}

DoCreateDriftChange ==
    /\ LoadedTable
    /\ \E T \in {CurrentTable} : \E cd \in DriftSubmissions(T) : CreatePendingChange(Operator, cd)

DoSetStatus ==
    \E row_id \in DOMAIN rows : UpdateRow(row_id, [status |-> "Passed"], Operator)

DoDeleteRow == \E row_id \in DOMAIN rows : DeleteRow(row_id, Manager)

DoDeletePhase == \E phase_id \in DOMAIN phases : DeletePhase(phase_id, Manager)

DoCreatePhase == \E is_active \in {FALSE} : CreatePhase(Manager, is_active)

NextDrift ==
    \/ DoCreateDriftChange
    \/ DoSetStatus
    \/ DoDeleteRow
    \/ DoDeletePhase
    \/ DoCreatePhase
    \/ DoAcceptOrderChange

SpecDrift == InitReview /\ [][NextDrift]_vars

-----------------------------------------------------------------------------
(* Review of a submission that declares two operations on the order *)

\* Two duplicates into different phases; a move to the end of phase 2 next to
\* a duplicate in phase 1; two moves that exchange rows between the phases.
PairSubmissions(T) ==
    {[table_data |-> [T EXCEPT ![1].rows = @ \o <<[T[2].rows[1] EXCEPT !.id = 1002]>>,
                               ![2].rows = @ \o <<[T[1].rows[1] EXCEPT !.id = 1001]>>],
      explicit_operations |->
         [NoHints EXCEPT !.row_duplicates = <<DupOp(T[1].rows[1].id, 1001, 2),
                                              DupOp(T[2].rows[1].id, 1002, 1)>>]],
     [table_data |-> [T EXCEPT ![1].rows = <<T[1].rows[2], [T[1].rows[2] EXCEPT !.id = 1001]>>,
                               ![2].rows = @ \o <<T[1].rows[1]>>],
      explicit_operations |->
         [row_moves |-> <<MoveOp(T[1].rows[1].id, 1, 2)>>,
          row_duplicates |-> <<DupOp(T[1].rows[2].id, 1001, 1)>>]],
     [table_data |-> [T EXCEPT ![1].rows = <<T[2].rows[1], T[1].rows[2]>>,
                               ![2].rows = <<T[1].rows[1]>>],
      explicit_operations |->
         [NoHints EXCEPT !.row_moves = <<MoveOp(T[1].rows[1].id, 1, 2),
                                         MoveOp(T[2].rows[1].id, 2, 1)>>]]}

DoCreatePairChange ==
    /\ LoadedTable
    /\ \E T \in {CurrentTable} : \E cd \in PairSubmissions(T) : CreatePendingChange(Operator, cd)

DoDeclineOrderChange ==
    \E change_id \in 1..Len(changes) : DeclinePendingChange(change_id, "ann")

NextPair ==
    \/ Tick
    \/ DoCreatePairChange
    \/ DoAcceptOrderChange
    \/ DoDeclineOrderChange

SpecPair == InitReview /\ [][NextPair]_vars

-----
(* update_table_data: the manager's bulk update replaces the table and      *)
(* writes the audit log from a comparison of the old table with the request *)

get_row_signature(row) == <<row.role, row.time, row.duration, row.description, row.script>>

RowContent(d) ==
    [role |-> d.role, time |-> d.time, duration |-> d.duration,
     description |-> d.description, script |-> d.script]

\* A client-side id: a millisecond timestamp, above 10^12 in the code.
is_timestamp_id(id) == id \in TempIds

\* The rows of a table in the order of its phases, each with its phase
\* number and its 0-based index.
TablePlaces(T) ==
    Concat([k \in 1..Len(T) |->
              [j \in 1..Len(T[k].rows) |->
                  [phase |-> T[k].phase, idx |-> j - 1, row |-> T[k].rows[j]]]])

TableIds(T) == {p.row.id : p \in Range(TablePlaces(T))} \ {NoId}

\* The dict keeps one entry per signature, at the place of the first row
\* that has the signature, holding the last row that has it.
old_rows_by_signature(old) ==
    LET P == TablePlaces(old)
        same(i, j) == get_row_signature(P[i].row) = get_row_signature(P[j].row)
        first == SelectSeq([i \in 1..Len(P) |-> i], LAMBDA i : \A j \in 1..(i - 1) : ~same(i, j))
        final(i) == CHOOSE j \in i..Len(P) : same(i, j) /\ \A m \in (j + 1)..Len(P) : ~same(i, m)
    IN [n \in 1..Len(first) |-> P[final(first[n])]]

duplicate_new_row_ids(old, data) ==
    {q.row.id : q \in {p \in Range(TablePlaces(data)) :
        \E o \in Range(old_rows_by_signature(old)) :
            /\ get_row_signature(o.row) = get_row_signature(p.row)
            /\ p.row.id # o.row.id
            /\ p.row.id \notin TableIds(old)}}

\* The index in TablePlaces(data) of the row an old row is matched with:
\* the first of the same signature and the same id; 0 when there is none.
MatchedPlace(o, old, data) ==
    LET N == TablePlaces(data)
        S == {i \in 1..Len(N) : /\ get_row_signature(N[i].row) = get_row_signature(o.row)
                                /\ N[i].row.id \notin duplicate_new_row_ids(old, data)
                                /\ N[i].row.id = o.row.id}
    IN IF S = {} THEN 0 ELSE CHOOSE i \in S : \A j \in S : i <= j

Distance(a, b) == IF a < b THEN b - a ELSE a - b

\* F applied to the value of v, which is computed once.
Bind(v, F(_)) == CHOOSE r \in {F(x) : x \in {v}} : TRUE

potential_moves(old, data) ==
    LET move(o, m) == [old_row_id |-> o.row.id, new_row_id |-> m.row.id,
                       old_phase |-> o.phase, new_phase |-> m.phase,
                       old_idx |-> o.idx, new_idx |-> m.idx,
                       index_change |-> Distance(m.idx, o.idx)]
    IN Bind(old_rows_by_signature(old), LAMBDA O : Bind(TablePlaces(data), LAMBDA N :
         Concat([n \in 1..Len(O) |->
           Bind(MatchedPlace(O[n], old, data), LAMBDA i :
              IF i # 0 /\ (O[n].phase # N[i].phase \/ O[n].idx # N[i].idx)
              THEN <<move(O[n], N[i])>> ELSE <<>>)])))

moved_row_ids(old, data) == {m.old_row_id : m \in Range(potential_moves(old, data))}

deleted_row_indices_by_phase(old, data) ==
    {<<o.phase, o.idx>> : o \in {p \in Range(old_rows_by_signature(old)) :
        MatchedPlace(p, old, data) = 0 /\ p.row.id \notin TableIds(data)}}

is_cascading_shift(m, old, data) ==
    /\ m.old_idx > m.new_idx
    /\ m.new_idx = m.old_idx - 1
    /\ \/ <<m.old_phase, m.old_idx - 1>> \in deleted_row_indices_by_phase(old, data)
       \/ \E p \in Range(TablePlaces(old)) :
            /\ p.phase = m.old_phase
            /\ p.idx = m.old_idx - 1
            /\ p.row.id \notin TableIds(data)

\* Every move between phases; of the moves within one phase the first of
\* the largest index change, unless the moves are shifts by one.
moves_to_log(old, data) ==
    LET max_change_move(pm) ==
            pm[CHOOSE i \in 1..Len(pm) :
                  /\ \A j \in 1..Len(pm) : pm[j].index_change <= pm[i].index_change
                  /\ \A j \in 1..(i - 1) : pm[j].index_change < pm[i].index_change]
        should_skip(pm) ==
            \/ Len(pm) > 1 /\ \A j \in 1..Len(pm) : pm[j].index_change = 1
            \/ is_cascading_shift(max_change_move(pm), old, data)
    IN Bind(potential_moves(old, data), LAMBDA M :
         Bind(SelectSeq(M, LAMBDA m : m.old_phase = m.new_phase), LAMBDA same :
           Bind(SelectSeq([i \in 1..Len(same) |-> i],
                          LAMBDA i : \A j \in 1..(i - 1) : same[j].old_phase # same[i].old_phase),
                LAMBDA order :
                  SelectSeq(M, LAMBDA m : m.old_phase # m.new_phase)
                  \o Concat([n \in 1..Len(order) |->
                        Bind(SelectSeq(same, LAMBDA m : m.old_phase = same[order[n]].old_phase),
                             LAMBDA phase_moves :
                                IF should_skip(phase_moves) THEN <<>>
                                ELSE <<max_change_move(phase_moves)>>)]))))

\* One plus the rows of the phases of a lower number, plus the index.
PositionIn(T, phase_number, idx) ==
    1 + Cardinality({i \in 1..Len(TablePlaces(T)) : TablePlaces(T)[i].phase < phase_number}) + idx

\* created_rows[phase_number]: the ids the rows of the request get, in the
\* order of the request.
created_rows(data, phase_number) ==
    LET P == TablePlaces(data)
    IN SelectSeq([i \in 1..Len(P) |-> IF P[i].phase = phase_number THEN nextId.row + i - 1 ELSE NoId],
                 LAMBDA x : x # NoId)

log_row_add(actor, row_id, phase_number, epoch, row_data, position) ==
    LogEntry(actor, "row_add", row_id,
             [row_id |-> row_id, phase_number |-> phase_number,
              row_position_at_action |-> position, row_data |-> row_data], epoch)

log_row_move(actor, row_id, source_phase, target_phase, old_index, new_index, row_position, epoch) ==
    LogEntry(actor, "row_move", row_id,
             [row_id |-> row_id, source_phase |-> source_phase, target_phase |-> target_phase,
              old_index |-> old_index, new_index |-> new_index, row_position |-> row_position],
             epoch)

MoveLogs(old, data, actor) ==
    Bind(moves_to_log(old, data), LAMBDA L :
      Bind(SelectSeq(L, LAMBDA m : /\ m.new_row_id \notin duplicate_new_row_ids(old, data)
                                   /\ m.new_idx < Len(created_rows(data, m.new_phase))),
           LAMBDA M :
             [i \in 1..Len(M) |->
                log_row_move(actor, created_rows(data, M[i].new_phase)[M[i].new_idx + 1],
                             M[i].old_phase, M[i].new_phase, M[i].old_idx, M[i].new_idx,
                             PositionIn(old, M[i].old_phase, M[i].old_idx), project.reset_epoch)]))

PhaseEntry(T, phase_number) == T[CHOOSE k \in 1..Len(T) : T[k].phase = phase_number]

TablePhases(T) == {T[k].phase : k \in 1..Len(T)}

FieldEditLogs(actor, row_id, phase_number, old_row, new_row) ==
    LET fs == SelectSeq(RowEditFieldOrder, LAMBDA f : old_row[f] # new_row[f])
    IN [i \in 1..Len(fs) |->
          log_row_edit(actor, row_id, phase_number, (fs[i] :> old_row[fs[i]]),
                       (fs[i] :> new_row[fs[i]]), project.reset_epoch)]

\* One turn of the loop over the indexes of a phase that the old table and
\* the request both have.  st.old_row is the local variable old_row: empty
\* while unbound, else the old row it was last bound to; reading it unbound
\* raises, which ends the request (st.failed).
CompareAtIndex(old, data, actor, phase_num, idx, st) ==
    LET old_rows == PhaseEntry(old, phase_num).rows
        new_rows == PhaseEntry(data, phase_num).rows
        created == created_rows(data, phase_num)
        moved == moved_row_ids(old, data)
        dups == duplicate_new_row_ids(old, data)
        step == [st EXCEPT !.created_idx = @ + 1]
        room == st.created_idx < Len(created)
        added(n) == log_row_add(actor, created[st.created_idx + 1], phase_num, project.reset_epoch,
                                RowContent(n), PositionIn(data, phase_num, idx))
        deleted(id, d) == log_row_delete(actor, id, phase_num, project.reset_epoch,
                                         RowContent(d), PositionIn(old, phase_num, idx))
    IN IF idx >= Len(old_rows)
       THEN LET n == new_rows[idx + 1]
                is_truly_new == /\ n.id # NoId
                                /\ n.id \notin moved
                                /\ n.id \notin TableIds(old) \/ n.id \in dups
            IN IF ~room THEN st
               ELSE IF is_truly_new THEN [step EXCEPT !.out = Append(@, added(n))]
               ELSE step
       ELSE IF idx >= Len(new_rows)
       THEN LET o == old_rows[idx + 1]
            IN IF o.id \in moved THEN st
               ELSE IF st.old_row = <<>> THEN [st EXCEPT !.failed = TRUE]
               ELSE [st EXCEPT !.out = Append(@, deleted(o.id, st.old_row[1]))]
       ELSE LET o == old_rows[idx + 1]
                n == new_rows[idx + 1]
                bound == [step EXCEPT !.old_row = <<o>>]
                is_new_row_temporary_id ==
                    n.id # NoId /\ n.id \notin TableIds(old) /\ is_timestamp_id(n.id)
                is_truly_new_for_add == n.id \notin TableIds(old) \/ n.id \in dups
            IN IF o.id \in moved /\ ~is_new_row_temporary_id THEN bound
               ELSE IF get_row_signature(o) = get_row_signature(n) THEN bound
               ELSE IF n.id # NoId /\ o.id # n.id
               THEN [bound EXCEPT
                       !.out = @ \o (IF o.id \notin TableIds(data) THEN <<deleted(o.id, o)>> ELSE <<>>)
                                 \o (IF is_truly_new_for_add /\ room THEN <<added(n)>> ELSE <<>>),
                       !.created_idx = IF is_truly_new_for_add /\ room THEN @ + 1 ELSE @]
               ELSE IF n.id # NoId /\ room
               THEN [bound EXCEPT !.out = @ \o FieldEditLogs(actor, created[st.created_idx + 1],
                                                            phase_num, o, n)]
               ELSE bound

RECURSIVE ComparePhase(_, _, _, _, _, _)
ComparePhase(old, data, actor, phase_num, idx, st) ==
    LET a == Len(PhaseEntry(old, phase_num).rows)
        b == Len(PhaseEntry(data, phase_num).rows)
    IN CHOOSE r \in {IF s.failed \/ idx >= (IF a < b THEN b ELSE a) THEN s
                     ELSE ComparePhase(old, data, actor, phase_num, idx + 1,
                                       CompareAtIndex(old, data, actor, phase_num, idx, s)) :
                     s \in {st}} : TRUE

\* The rows of a phase the request leaves out, each one logged as deleted
\* unless it was found to have moved.
DroppedPhaseLogs(old, data, actor, phase_num) ==
    LET rs == PhaseEntry(old, phase_num).rows
        gone == SelectSeq([i \in 1..Len(rs) |-> i],
                          LAMBDA i : rs[i].id \notin moved_row_ids(old, data))
    IN [n \in 1..Len(gone) |->
          log_row_delete(actor, rs[gone[n]].id, phase_num, project.reset_epoch,
                         RowContent(rs[gone[n]]), PositionIn(old, phase_num, gone[n] - 1))]

RECURSIVE CompareTables(_, _, _, _, _)
CompareTables(old, data, actor, k, st) ==
    CHOOSE r \in {
        IF s.failed \/ k > Len(old) THEN s
        ELSE LET p == old[k].phase
             IN CompareTables(old, data, actor, k + 1,
                  IF p \notin TablePhases(data)
                  THEN [s EXCEPT !.out = @ \o DroppedPhaseLogs(old, data, actor, p),
                                 !.old_row = IF old[k].rows = <<>> THEN @
                                             ELSE <<old[k].rows[Len(old[k].rows)]>>]
                  ELSE ComparePhase(old, data, actor, p, 0, [s EXCEPT !.created_idx = 0])) :
        s \in {st}} : TRUE

\* The rows of the phases only the request has, all logged as added.
NewPhaseLogs(old, data, actor) ==
    LET P == SelectSeq(TablePlaces(data), LAMBDA p : p.phase \notin TablePhases(old))
    IN [i \in 1..Len(P) |->
          log_row_add(actor, created_rows(data, P[i].phase)[P[i].idx + 1], P[i].phase,
                      project.reset_epoch, RowContent(P[i].row),
                      PositionIn(data, P[i].phase, P[i].idx))]

PhaseChangeLogs(old, data, actor) ==
    LET gone == SetToSeq(TablePhases(old) \ TablePhases(data))
        come == SetToSeq(TablePhases(data) \ TablePhases(old))
        k(p) == CHOOSE i \in 1..Len(data) : data[i].phase = p
    IN [i \in 1..Len(gone) |->
          log_phase_delete(actor, PhaseByNumber(gone[i]), gone[i], project.reset_epoch)]
       \o [i \in 1..Len(come) |->
          log_phase_add(actor, nextId.phase + k(come[i]) - 1, come[i], project.reset_epoch)]

\* The store after the replacement: every phase and row of the request is a
\* new record with a new id.
RecreatedPhases(data) ==
    [i \in {nextId.phase + k - 1 : k \in 1..Len(data)} |->
        [phase_number |-> data[i - nextId.phase + 1].phase,
         is_active |-> Get(data[i - nextId.phase + 1], "is_active", FALSE)]]

RecreatedRows(data) ==
    LET P == TablePlaces(data)
        k(p) == CHOOSE i \in 1..Len(data) : data[i].phase = p
    IN [r \in {nextId.row + i - 1 : i \in 1..Len(P)} |->
          LET d == P[r - nextId.row + 1].row
          IN [phase_id |-> nextId.phase + k(P[r - nextId.row + 1].phase) - 1,
              role |-> d.role, time |-> d.time, duration |-> d.duration,
              description |-> d.description, script |-> d.script, status |-> d.status,
              script_result |-> Get(d, "scriptResult", NoneVal),
              updated_at |-> DbDatetime(utcnow)]]

UpdateTableData(data, actor) ==
    /\ reqs.update_table < MaxBulkUpdates
    /\ \E old \in {CurrentTable} :
       \E st \in {CompareTables(old, data, actor, 1,
                      [created_idx |-> 0, old_row |-> <<>>, out |-> <<>>, failed |-> FALSE])} :
          /\ logs' = logs \o Renumber(PhaseChangeLogs(old, data, actor)
                                      \o MoveLogs(old, data, actor) \o st.out
                                      \o (IF st.failed THEN <<>> ELSE NewPhaseLogs(old, data, actor)),
                                      Len(logs))
          /\ resp' = IF st.failed THEN [status |-> 500] ELSE [status |-> 200]
          /\ last' = [op |-> "update_table_data", data |-> data, actor |-> actor, old |-> old]
    /\ phases' = RecreatedPhases(data)
    /\ rows' = RecreatedRows(data)
    /\ nextId' = [nextId EXCEPT !.phase = @ + Len(data), !.row = @ + Len(TablePlaces(data))]
    /\ reqs' = [reqs EXCEPT !.update_table = @ + 1]
    /\ UNCHANGED inflight
    /\ UNCHANGED <<now, project, roles, scripts, changes>>

\* The table with some of its rows taken out, the other rows as they were.
ThinnedTables(T) ==
    {[k \in 1..Len(T) |-> [T[k] EXCEPT !.rows = SelectSeq(@, LAMBDA d : d.id \in K)]] :
        K \in (SUBSET TableIds(T)) \ {TableIds(T)}}

DoUpdateTableData ==
    \E actor \in Actors : \E data \in ThinnedTables(CurrentTable) \cup EditedOnce(CurrentTable) :
        UpdateTableData(data, actor)

NextBulk == DoUpdateTableData

SpecBulk == InitDiff /\ [][NextBulk]_vars

----
(* Review requests served at the same time.  Every request runs in a        *)
(* session of its own: it reads its pending change, applies it and commits, *)
(* writes the new status and commits, then counts what is left and answers. *)
(* Between two of these statements the statements of another request can    *)
(* run; a statement reads what has been committed by then.                  *)

StatusCommits == Cardinality({i \in 1..Len(inflight) : inflight[i].marked_at # 0})

\* first_or_404(): the request holds the change it found pending, or has
\* answered 404.
ReviewRequest(op, change_id, reviewer) ==
    LET idx == PendingIndex(change_id)
    IN [op |-> op, change_id |-> change_id, reviewed_by |-> Strip(reviewer), idx |-> idx,
        pc |-> IF idx = 0 THEN "done" ELSE IF op = "accept" THEN "apply" ELSE "mark",
        begun_at |-> StatusCommits, marked_at |-> 0, applied |-> FALSE,
        response |-> IF idx = 0 THEN [status |-> 404] ELSE [status |-> 0]]

BeginReview(op, change_id, reviewer) ==
    /\ Len(inflight) < MaxInflight
    /\ inflight' = Append(inflight, ReviewRequest(op, change_id, reviewer))
    /\ resp' = IF PendingIndex(change_id) = 0 THEN [status |-> 404] ELSE resp
    /\ last' = [op |-> "begin_review", request |-> Len(inflight) + 1]
    /\ UNCHANGED <<now, project, roles, scripts, phases, rows, nextId, changes, logs, reqs>>

Answered(i, response) == [inflight EXCEPT ![i].pc = "done", ![i].response = response]

\* The accept handler applies the change and commits.
ApplyStep(i) ==
    /\ inflight[i].pc = "apply"
    /\ LET ch == changes[inflight[i].idx]
       IN IF NotFound(Db, ch) \/ IntegrityError(Db, ch)
          THEN LET response == [status |-> IF NotFound(Db, ch) THEN 404 ELSE 500]
               IN /\ inflight' = Answered(i, response)
                  /\ resp' = response
                  /\ UNCHANGED <<project, roles, scripts, phases, rows, nextId, changes>>
          ELSE /\ StoreBecomes(ApplyChange(Db, ch))
               /\ inflight' = [inflight EXCEPT ![i].pc = "mark", ![i].applied = TRUE]
               /\ UNCHANGED resp
    /\ last' = [op |-> "apply", request |-> i]
    /\ UNCHANGED <<now, logs, reqs>>

\* The handler writes the status of the change it holds and commits: an
\* UPDATE by primary key, whatever the status has become meanwhile.
MarkStep(i) ==
    /\ inflight[i].pc = "mark"
    /\ changes' = [changes EXCEPT ![inflight[i].idx] =
                      Reviewed(@, IF inflight[i].op = "accept" THEN "accepted" ELSE "declined",
                               inflight[i].reviewed_by)]
    /\ inflight' = [inflight EXCEPT ![i].pc = "finish", ![i].marked_at = StatusCommits + 1]
    /\ last' = [op |-> "mark", request |-> i]
    /\ UNCHANGED <<now, project, roles, scripts, phases, rows, nextId, logs, resp, reqs>>

RemainingSeenBy_BeforeCommit(chs, request) ==
    remaining_pending([chs EXCEPT ![request.idx].status = "pending"],
                      chs[request.idx].submission_id)

\* The count query runs after the commit of the status.
RemainingSeenBy(chs, request) == remaining_pending(chs, chs[request.idx].submission_id)

\* The rest of the accept handler: the table_data record follows, the
\* timestamps are rewritten in the order of the snapshot, the answer is built.
FinishAccept(i) ==
    LET ch == changes[inflight[i].idx]
        reviewed_by == inflight[i].reviewed_by
        t == IF ch.change_type \in OrderTypes
             THEN TableDataIndex(changes, ch.submission_id) ELSE 0
        chs == ReviewInLockstep(changes, ch, "accepted", reviewed_by)
        reorder == t # 0 /\ changes[t].changes_data.table_data # <<>>
        table == IF reorder THEN RebuiltTable(Db, changes[t].changes_data.table_data) ELSE <<>>
        remaining == RemainingSeenBy(chs, inflight[i])
        body == [message |-> "Change accepted", submission_id |-> ch.submission_id,
                 remaining_pending |-> remaining, all_processed |-> (remaining = 0)]
        response == [status |-> 200,
                     json |-> JsonObject(IF t # 0 THEN body @@ [table_data |-> table] ELSE body)]
    IN /\ changes' = chs
       /\ rows' = IF reorder THEN RewriteTimestamps(Db, table) ELSE rows
       /\ inflight' = Answered(i, response)
       /\ resp' = response

\* The rest of the decline handler.
FinishDecline(i) ==
    LET ch == changes[inflight[i].idx]
        chs == ReviewInLockstep(changes, ch, "declined", inflight[i].reviewed_by)
        remaining == RemainingSeenBy(chs, inflight[i])
        response == [status |-> 200,
                     json |-> JsonArray(<<[message |-> "Change declined",
                                           submission_id |-> ch.submission_id,
                                           remaining_pending |-> remaining,
                                           all_processed |-> (remaining = 0)], 200>>)]
    IN /\ changes' = chs
       /\ inflight' = Answered(i, response)
       /\ resp' = response
       /\ UNCHANGED rows

FinishStep(i) ==
    /\ inflight[i].pc = "finish"
    /\ IF inflight[i].op = "accept" THEN FinishAccept(i) ELSE FinishDecline(i)
    /\ last' = [op |-> "finish", request |-> i]
    /\ UNCHANGED <<now, project, roles, scripts, phases, nextId, logs, reqs>>

DoBeginReview ==
    \E op \in {"accept", "decline"} : \E change_id \in 1..Len(changes) :
       \E reviewer \in Reviewers : BeginReview(op, change_id, reviewer)

DoApplyStep == \E i \in 1..Len(inflight) : ApplyStep(i)

DoMarkStep == \E i \in 1..Len(inflight) : MarkStep(i)

DoFinishStep == \E i \in 1..Len(inflight) : FinishStep(i)

NextRace == DoCreatePendingChange \/ DoBeginReview \/ DoApplyStep \/ DoMarkStep \/ DoFinishStep

SpecRace == InitReview /\ [][NextRace]_vars

----
(* Properties of create_pending_change *)

Submitted == last.op = "create_pending_change" /\ resp.status = 201

CreatedOfType(t) ==
    {i \in 1..Len(resp.created_changes) : resp.created_changes[i].change_type = t}

NumCreated(t) == Cardinality(CreatedOfType(t))

NoExplicitOps(cd) ==
    \/ "explicit_operations" \notin DOMAIN cd
    \/ /\ cd.explicit_operations.row_moves = <<>>
       /\ cd.explicit_operations.row_duplicates = <<>>

OnlyTable(cd) == DOMAIN cd \subseteq {"table_data", "explicit_operations"} /\ "table_data" \in DOMAIN cd

IsNoOpSubmission(cd) ==
    /\ "table_data" \in DOMAIN cd => cd.table_data = CurrentTable
    /\ "version" \in DOMAIN cd => cd.version = project.version
    /\ "roles" \in DOMAIN cd => cd.roles = roles
    /\ "periodic_scripts" \in DOMAIN cd => cd.periodic_scripts = CurrentScripts
    /\ NoExplicitOps(cd)

\* C1: a submission whose snapshot, version, roles and scripts equal the store,
\* with no explicit operations, creates no PendingChange record at all (and so
\* no table_data record).
Thm_C1_NoOpDiff ==
    (Submitted /\ IsNoOpSubmission(last.changes_data)) =>
        /\ resp.count = 0
        /\ resp.created_changes = <<>>
        /\ \A i \in 1..Len(changes) : changes[i].submission_id # resp.submission_id

Wit_C1_NoOpDiff ==
    /\ Submitted /\ IsNoOpSubmission(last.changes_data)
    /\ DOMAIN last.changes_data = {"version", "roles", "periodic_scripts", "table_data"}
    /\ resp.count = 0

\* The phase entries of the table whose two rows the snapshot swaps.
SwappedPhases(cd) ==
    {k \in 1..Len(CurrentTable) :
        /\ Len(CurrentTable[k].rows) = 2
        /\ cd.table_data = [CurrentTable EXCEPT ![k].rows =
                               <<CurrentTable[k].rows[2], CurrentTable[k].rows[1]>>]}

IsPureMove(cd) == OnlyTable(cd) /\ SwappedPhases(cd) # {}

SwappedIds(cd) ==
    UNION {{CurrentTable[k].rows[1].id, CurrentTable[k].rows[2].id} : k \in SwappedPhases(cd)}

OneMoveHintFor(cd, ids) ==
    /\ "explicit_operations" \in DOMAIN cd
    /\ cd.explicit_operations.row_duplicates = <<>>
    /\ Len(cd.explicit_operations.row_moves) = 1
    /\ cd.explicit_operations.row_moves[1].row_id \in ids
    /\ cd.explicit_operations.row_moves[1].source_phase_number # NoPhase
    /\ cd.explicit_operations.row_moves[1].target_phase_number # NoPhase

HeadRemovedPhases(cd) ==
    {k \in 1..Len(CurrentTable) :
        /\ Len(CurrentTable[k].rows) = 3
        /\ cd.table_data = [CurrentTable EXCEPT ![k].rows = Tail(CurrentTable[k].rows)]}

IsHeadRemoval(cd) == OnlyTable(cd) /\ NoExplicitOps(cd) /\ HeadRemovedPhases(cd) # {}

\* C3: Old = [A, B, C], New = [B, C] (same ids and content, no explicit
\* operations) yields exactly one row_delete, for A, and no row_move.
Thm_C3_CascadeSuppression ==
    (Submitted /\ IsHeadRemoval(last.changes_data)) =>
        /\ NumCreated("row_delete") = 1
        /\ \A i \in CreatedOfType("row_delete") :
              \E k \in HeadRemovedPhases(last.changes_data) :
                 resp.created_changes[i].changes_data.row_id = CurrentTable[k].rows[1].id
        /\ NumCreated("row_move") = 0

Wit_C3_CascadeSuppression ==
    /\ Submitted /\ IsHeadRemoval(last.changes_data)
    /\ NumCreated("row_delete") = 1
    /\ NumCreated("table_data") = 1

Signature(d) == <<d.role, d.time, d.duration, d.description, d.script>>

\* <<B, temporary id, target phase number>> such that the snapshot is the table
\* plus one row with that temporary id and B's signature, in a phase other
\* than B's.
DuplicateInsertions(cd) ==
    {bnq \in (DOMAIN rows) \X TempIds \X {CurrentTable[k].phase : k \in 1..Len(CurrentTable)} :
        /\ phases[rows[bnq[1]].phase_id].phase_number # bnq[3]
        /\ \E k \in 1..Len(CurrentTable) :
             /\ CurrentTable[k].phase = bnq[3]
             /\ \E j \in 1..Len(cd.table_data[k].rows) :
                  /\ cd.table_data[k].rows[j].id = bnq[2]
                  /\ Signature(cd.table_data[k].rows[j]) = Signature(rows[bnq[1]])
                  /\ Len(cd.table_data) = Len(CurrentTable)
                  /\ CurrentTable = [cd.table_data EXCEPT ![k].rows = RemoveAt(@, j)]}

IsDuplicateInsertion(cd) ==
    /\ OnlyTable(cd)
    /\ Len(cd.table_data) = Len(CurrentTable)
    /\ DuplicateInsertions(cd) # {}

OneDupHintFor(cd, bnq) ==
    /\ "explicit_operations" \in DOMAIN cd
    /\ cd.explicit_operations.row_moves = <<>>
    /\ cd.explicit_operations.row_duplicates = <<DupOp(bnq[1], bnq[2], bnq[3])>>

-----------------------------------------------------------------------------
(* Properties of update_row *)

\* The request changes the status of the row and nothing else.
ChangesOnlyStatus(data, row) ==
    /\ "status" \in DOMAIN data /\ data.status # row.status
    /\ \A f \in ContentFields : f \in DOMAIN data => data[f] = row[f]
    /\ "scriptResult" \in DOMAIN data => data.scriptResult = row.script_result

IsLastInPhase(rs, row_id) ==
    LET order == PhaseRowsIn(rs, rs[row_id].phase_id)
    IN order[Len(order)] = row_id

\* C6: after an update_row request that changes role, time, duration,
\* description or script, the row is last in the display order of its phase.
Orig_C6_ContentEditMovesLast ==
    [][(last'.op = "update_row" /\ ChangedContentFields(last'.data, rows[last'.row_id]) # {}) =>
          IsLastInPhase(rows', last'.row_id)]_vars

NewLogs == SubSeq(logs', Len(logs) + 1, Len(logs'))

\* C7: an update_row request of the manager that changes exactly role and
\* description of a row, and not its status, appends exactly two audit
\* entries, both row_edit, one naming role only and one naming description only.
Thm_C7_PerFieldAudit ==
    [][(/\ last'.op = "update_row"
        /\ last'.actor.user_role = project.manager_role
        /\ ChangedContentFields(last'.data, rows[last'.row_id]) = {"role", "description"}
        /\ Get(last'.data, "status", rows[last'.row_id].status) = rows[last'.row_id].status) =>
          /\ Len(NewLogs) = 2
          /\ \A i \in 1..2 : /\ NewLogs[i].action_type = "row_edit"
                            /\ NewLogs[i].row_id = last'.row_id
                            /\ DOMAIN NewLogs[i].details.new_data = DOMAIN NewLogs[i].details.old_data
          /\ {DOMAIN NewLogs[i].details.new_data : i \in 1..2} = {{"role"}, {"description"}}]_vars

Wit_C7_PerFieldAudit ==
    /\ last.op = "update_row" /\ resp.status = 200
    /\ last.actor.user_role = project.manager_role
    /\ DOMAIN last.data = {"role", "description"}
    /\ Len(logs) = 2
    /\ logs[1].action_type = "row_edit" /\ logs[2].action_type = "row_edit"
    /\ logs[1].details.new_data = [role |-> last.data.role]
    /\ logs[2].details.new_data = [description |-> last.data.description]

-----------------------------------------------------------------------------
(* Properties of the review responses *)

StillPending(submission_id) ==
    {i \in 1..Len(changes) : /\ changes[i].submission_id = submission_id
                             /\ changes[i].change_type # "table_data"
                             /\ changes[i].status = "pending"}

ReviewServed == last.op \in {"accept_pending_change", "decline_pending_change"} /\ resp.status = 200

ReviewedSubmission == changes[CHOOSE i \in 1..Len(changes) : changes[i].id = last.change_id].submission_id

\* C8: the response of an accept or a decline is an object whose
\* remaining_pending is the number of changes of the submission, other than
\* table_data, that are still pending, and whose all_processed says that this
\* number is zero.
Orig_C8_CompletionGating ==
    ReviewServed =>
        /\ resp.json.kind = "object"
        /\ resp.json.value.remaining_pending = Cardinality(StillPending(ReviewedSubmission))
        /\ resp.json.value.all_processed = (StillPending(ReviewedSubmission) = {})

-----------------------------------------------------------------------------
(* Properties of the audit log across resets *)

ResetEntries == {k \in 1..Len(logs) : logs[k].action_type = "reset_statuses"}

\* The entries written before some reset.
BeforeReset == {i \in 1..Len(logs) : \E k \in ResetEntries : i < k}

LogsServed == last.op = "get_action_logs" /\ resp.status = 200

\* C9: get_action_logs returns no entry written before a reset, and every
\* entry it returns carries the project's current reset_epoch.
Thm_C9_EpochExclusion ==
    LogsServed =>
        /\ \A i \in BeforeReset : logs[i] \notin resp.logs
        /\ \A e \in resp.logs : e.reset_epoch = project.reset_epoch

Wit_C9_EpochExclusion ==
    /\ LogsServed
    /\ BeforeReset # {}
    /\ resp.logs # {}
    /\ last.filters.action_type = ""

-----------------------------------------------------------------------------
(* Properties of the review transitions *)

Terminal == {"accepted", "declined"}

\* The fields of the store a review may write, other than the change records.
Store == <<project, roles, scripts, phases, rows, nextId>>

\* The step serves an accept or a decline of a change that is already reviewed.
ReviewOfTerminal ==
    /\ last'.op \in {"accept_pending_change", "decline_pending_change"}
    /\ last'.change_id \in 1..Len(changes)
    /\ changes[last'.change_id].status \in Terminal

\* No step takes a reviewed change out of its state or rewrites its reviewer.
TerminalStays ==
    \A i \in 1..Len(changes) :
        changes[i].status \in Terminal =>
            /\ i \in 1..Len(changes')
            /\ changes'[i].status = changes[i].status
            /\ changes'[i].reviewed_by = changes[i].reviewed_by
            /\ changes'[i].reviewed_at = changes[i].reviewed_at

\* C11: accepted and declined are terminal: a later accept or decline of such a
\* change is answered 404 and changes neither a change record nor the store,
\* and no step at all changes the status or the reviewer fields of a reviewed
\* change.
Thm_C11_TerminalStates ==
    [][/\ TerminalStays
       /\ ReviewOfTerminal =>
            /\ resp'.status = 404
            /\ changes' = changes
            /\ UNCHANGED <<Store, logs>>]_vars

Wit_C11_TerminalStates ==
    /\ last.op \in {"accept_pending_change", "decline_pending_change"}
    /\ resp.status = 404
    /\ changes[last.change_id].status = "accepted"
    /\ changes[last.change_id].change_type = "row_add"
    /\ \E i \in 1..Len(changes) : changes[i].status = "declined"

\* C12: every change that is accepted or declined carries a non-empty
\* reviewed_by and a reviewed_at.
Orig_C12_ReviewerRequired ==
    \A i \in 1..Len(changes) :
        changes[i].status \in Terminal =>
            /\ changes[i].reviewed_by \notin {NoneVal, ""}
            /\ changes[i].reviewed_at # NoDate

\* The step serves an accept that wrote to the project, its roles, scripts,
\* phases or rows.
AcceptApplied ==
    /\ last'.op = "accept_pending_change"
    /\ resp'.status = 200
    /\ <<project, roles, scripts, phases, rows>>' # <<project, roles, scripts, phases, rows>>

\* C13: an accept that applies a change to the store appends at least one
\* audit log entry, tagged with the reset epoch of the project.
Orig_C13_AcceptAudited ==
    [][AcceptApplied =>
         /\ Len(logs') > Len(logs)
         /\ \A i \in (Len(logs) + 1)..Len(logs') : logs'[i].reset_epoch = project.reset_epoch]_vars

\* C14: an accept that fails leaves every row, phase, role, script, the
\* project and every change record as they were before the request: the change
\* is still pending and nothing of it is applied.
Orig_C14_AtomicApply ==
    [][(last'.op = "accept_pending_change" /\ resp'.status = 500) =>
          /\ UNCHANGED Store
          /\ changes' = changes]_vars

-----------------------------------------------------------------------------
(* Properties of the apply step of accept_pending_change *)

\* The step serves an accept of a pending change of type t.
AcceptOf(t) ==
    /\ last'.op = "accept_pending_change"
    /\ PendingIndex(last'.change_id) # 0
    /\ changes[PendingIndex(last'.change_id)].change_type = t

\* The change under review, and its data.
Reviewing == changes[PendingIndex(last'.change_id)]

Target == Reviewing.changes_data

AcceptedInStep == changes'[PendingIndex(last'.change_id)].status = "accepted"

StaleUpdateOrDelete ==
    /\ AcceptOf("row_update") \/ AcceptOf("row_delete")
    /\ Target.row_id \notin DOMAIN rows

StaleMoveOrDuplicate ==
    \/ AcceptOf("row_move") /\ Target.row_id \notin DOMAIN rows
    \/ AcceptOf("row_duplicate") /\ Target.source_row_id \notin DOMAIN rows

SilentSkip ==
    /\ resp'.status = 200
    /\ rows' = rows
    /\ phases' = phases
    /\ AcceptedInStep

\* C15: accepting a row_update, row_delete, row_move or row_duplicate
\* whose row is gone answers without an error, leaves rows and phases as they
\* were and marks the change accepted.
Orig_C15_StaleTargetSkip ==
    [][(StaleUpdateOrDelete \/ StaleMoveOrDuplicate) => SilentSkip]_vars

MissingTargetPhase ==
    /\ AcceptOf("row_move") \/ AcceptOf("row_duplicate")
    /\ PhaseOfNumber(phases, Target.target_phase_number) = NoId

\* C16: accepting a row_move or a row_duplicate whose target phase number is
\* not a phase of the project answers 404, leaves rows and phases as they were,
\* and leaves every change record, the reviewed one and the table_data record
\* of its submission included, as it was.
Thm_C16_MissingTargetPhase ==
    [][MissingTargetPhase =>
          /\ resp'.status = 404
          /\ UNCHANGED Store
          /\ changes' = changes]_vars

\* A move of a row that exists, into a phase that is gone, was refused, and
\* the table_data record of the submission is pending.
Wit_C16_MissingTargetPhase ==
    /\ last.op = "accept_pending_change"
    /\ resp.status = 404
    /\ changes[last.change_id].change_type = "row_move"
    /\ changes[last.change_id].status = "pending"
    /\ changes[last.change_id].changes_data.row_id \in DOMAIN rows
    /\ PhaseOfNumber(phases, changes[last.change_id].changes_data.target_phase_number) = NoId
    /\ TableDataIndex(changes, changes[last.change_id].submission_id) # 0

\* C17: after an accept of a pending row_add for phase number p, the project
\* has a phase of number p that holds a row created by the accept, with the
\* submitted content.
Orig_C17_RowAddApply ==
    [][AcceptOf("row_add") =>
          \E r \in (DOMAIN rows') \ (DOMAIN rows) :
             /\ rows'[r].phase_id \in DOMAIN phases'
             /\ phases'[rows'[r].phase_id].phase_number = Target.phase_number
             /\ RowData(rows'[r]) = Target.row_data]_vars

PhaseOrders(rs, ps) == [p \in DOMAIN ps |-> PhaseRowsIn(rs, p)]

\* C18: accepting a row_update leaves the updated_at of every row, the target
\* included, as it was, and with it the display order of every phase.
Thm_C18_RowUpdateKeepsOrder ==
    [][AcceptOf("row_update") =>
          /\ DOMAIN rows' = DOMAIN rows
          /\ \A r \in DOMAIN rows : rows'[r].updated_at = rows[r].updated_at
          /\ PhaseOrders(rows', phases') = PhaseOrders(rows, phases)]_vars

\* A row_update was applied to a row that is not last in its phase and whose
\* timestamp is not the one a write at this time would store.
Wit_C18_RowUpdateKeepsOrder ==
    /\ last.op = "accept_pending_change"
    /\ resp.status = 200
    /\ changes[last.change_id].change_type = "row_update"
    /\ LET row_id == changes[last.change_id].changes_data.row_id
       IN /\ row_id \in DOMAIN rows
          /\ rows[row_id].description = changes[last.change_id].changes_data.new_data.description
          /\ rows[row_id].updated_at # DbDatetime(now)
          /\ Len(PhaseRows(rows[row_id].phase_id)) >= 2
          /\ PhaseRows(rows[row_id].phase_id)[1] = row_id

RowFields == ContentFields \cup {"status"}

\* C19: accepting a row_update leaves every field of the target row whose
\* value in old_data equals its value in new_data as it is in the store.
Orig_C19_RowUpdateOnlyChanged ==
    [][(AcceptOf("row_update") /\ Target.row_id \in DOMAIN rows) =>
          \A f \in RowFields :
             Target.old_data[f] = Target.new_data[f] =>
                rows'[Target.row_id][f] = rows[Target.row_id][f]]_vars

SameContent(a, b) ==
    /\ \A f \in RowFields : a[f] = b[f]
    /\ a.script_result = b.script_result

\* C20: an accepted row_move neither creates nor removes a row or a phase,
\* leaves every other row in its phase, leaves the content of every row as it
\* is, and puts the named row into the target phase when the source and target
\* numbers differ and leaves it in its phase when they are equal.
Thm_C20_RowMoveFrame ==
    [][(AcceptOf("row_move") /\ resp'.status = 200) =>
          /\ DOMAIN rows' = DOMAIN rows
          /\ phases' = phases
          /\ \A r \in DOMAIN rows :
                /\ SameContent(rows'[r], rows[r])
                /\ r # Target.row_id => rows'[r].phase_id = rows[r].phase_id
          /\ rows'[Target.row_id].phase_id =
                IF Target.source_phase_number = Target.target_phase_number
                THEN rows[Target.row_id].phase_id
                ELSE PhaseOfNumber(phases, Target.target_phase_number)]_vars

\* The rows of a snapshot, whatever their phase.
SnapshotRows(table_data) ==
    UNION {Range(table_data[k].rows) : k \in 1..Len(table_data)}

\* A move to another phase was applied while the snapshot of its submission
\* held, for a row of the store, a description the store does not have, and
\* the phase the row left still holds a row.
Wit_C20_RowMoveFrame ==
    /\ last.op = "accept_pending_change"
    /\ resp.status = 200
    /\ changes[last.change_id].change_type = "row_move"
    /\ LET cd == changes[last.change_id].changes_data
       IN /\ cd.source_phase_number # cd.target_phase_number
          /\ cd.row_id \in DOMAIN rows
          /\ rows[cd.row_id].phase_id = PhaseOfNumber(phases, cd.target_phase_number)
          /\ PhaseOfNumber(phases, cd.source_phase_number) # NoId
          /\ PhaseRows(PhaseOfNumber(phases, cd.source_phase_number)) # <<>>
    /\ \E i \in 1..Len(changes) :
          /\ changes[i].submission_id = changes[last.change_id].submission_id
          /\ changes[i].change_type = "table_data"
          /\ \E d \in SnapshotRows(changes[i].changes_data.table_data) :
                d.id \in DOMAIN rows /\ d.description # rows[d.id].description

\* The row an accepted duplicate added.
AddedRows == DOMAIN rows' \ DOMAIN rows

\* C21: an accepted row_duplicate adds exactly one row, in the target phase,
\* with the role, time, duration, description and script the source row has in
\* the store when the change is accepted, and leaves the content and the phase
\* of every row that existed as they were.
Thm_C21_RowDuplicateApply ==
    [][(AcceptOf("row_duplicate") /\ resp'.status = 200) =>
          /\ DOMAIN rows \subseteq DOMAIN rows'
          /\ Cardinality(AddedRows) = 1
          /\ phases' = phases
          /\ \A n \in AddedRows :
                /\ rows'[n].phase_id = PhaseOfNumber(phases, Target.target_phase_number)
                /\ \A f \in ContentFields : rows'[n][f] = rows[Target.source_row_id][f]
          /\ \A r \in DOMAIN rows :
                /\ SameContent(rows'[r], rows[r])
                /\ rows'[r].phase_id = rows[r].phase_id]_vars

\* A duplicate was applied after its source row was edited: the copy carries
\* a description that the snapshot of the submission does not give it.
Wit_C21_RowDuplicateApply ==
    /\ last.op = "accept_pending_change"
    /\ resp.status = 200
    /\ changes[last.change_id].change_type = "row_duplicate"
    /\ LET cd == changes[last.change_id].changes_data
       IN /\ cd.source_row_id \in DOMAIN rows
          /\ \E i \in 1..Len(changes) :
                /\ changes[i].submission_id = changes[last.change_id].submission_id
                /\ changes[i].change_type = "table_data"
                /\ \E d \in SnapshotRows(changes[i].changes_data.table_data) :
                      /\ d.id \in DOMAIN rows
                      /\ d.id = nextId.row - 1
                      /\ d.id # cd.source_row_id
                      /\ rows[d.id].phase_id = PhaseOfNumber(phases, cd.target_phase_number)
                      /\ rows[d.id].description = rows[cd.source_row_id].description
                      /\ d.description # rows[d.id].description

\* The table_data records of the submission under review, whatever their status.
SnapshotRecords ==
    {i \in 1..Len(changes) : /\ changes[i].submission_id = Reviewing.submission_id
                             /\ changes[i].change_type = "table_data"
                             /\ changes[i].changes_data.table_data # <<>>}

\* C22: after every accepted row_duplicate of a submission that has a
\* table_data record, the snapshot of that record names the new row by its
\* durable id and no longer holds the temporary id of the duplicate.
Orig_C22_TempIdRewrite ==
    [][(AcceptOf("row_duplicate") /\ resp'.status = 200) =>
          \A i \in SnapshotRecords :
             LET snapshot == SnapshotRows(changes'[i].changes_data.table_data)
             IN /\ \A d \in snapshot : d.id # Target.new_row_id
                /\ \E d \in snapshot : d.id \in AddedRows]_vars

\* A review request that finds its change pending.
ReviewBy(op) ==
    /\ last'.op = op
    /\ PendingIndex(last'.change_id) # 0

\* No table_data record is pending next to a reviewed row_move or
\* row_duplicate of its submission.
RecordFollowsOrderChanges ==
    \A i, j \in 1..Len(changes) :
       (/\ changes[i].change_type = "table_data"
        /\ changes[j].submission_id = changes[i].submission_id
        /\ changes[j].change_type \in OrderTypes
        /\ changes[j].status # "pending") => changes[i].status # "pending"

Among(ids, S) ==
    LET Keep(x) == x \in S
    IN SelectSeq(ids, Keep)

\* The ids a snapshot entry lists, the temporary id of the duplicate under
\* review replaced by the row that the accept created.
IntendedIds(entry) ==
    [j \in 1..Len(entry.rows) |->
        IF /\ Reviewing.change_type = "row_duplicate"
           /\ entry.rows[j].id = Target.new_row_id
           /\ AddedRows # {}
        THEN CHOOSE n \in AddedRows : TRUE
        ELSE entry.rows[j].id]

\* Every phase shows the rows it shares with the snapshot in the snapshot's
\* order, and the row that was moved or created is one of them.
OrderRestored(table_data) ==
    /\ \A k \in 1..Len(table_data) :
          LET pid == PhaseOfNumber(phases', table_data[k].phase)
              intended == IntendedIds(table_data[k])
              shown == PhaseRowsIn(rows', pid)
          IN pid # NoId =>
                Among(shown, Range(intended)) = Among(intended, Range(shown))
    /\ \E k \in 1..Len(table_data) :
          LET acted == IF Reviewing.change_type = "row_duplicate"
                       THEN AddedRows ELSE {Target.row_id}
          IN /\ acted \subseteq Range(IntendedIds(table_data[k]))
             /\ acted \subseteq Range(PhaseRowsIn(rows', PhaseOfNumber(phases', table_data[k].phase)))

\* C24: after every accepted row_move or row_duplicate of a submission that
\* supplied a snapshot, each phase reads back in the order in which the
\* snapshot lists its rows, with the moved or duplicated row at its place,
\* also when another row_move or row_duplicate of the submission was reviewed
\* before.
Orig_C24_OrderRestored ==
    [][(/\ \/ AcceptOf("row_move")
           \/ AcceptOf("row_duplicate")
        /\ resp'.status = 200) =>
          \A i \in SnapshotRecords : OrderRestored(changes[i].changes_data.table_data)]_vars

\* A change record differs from another in its review fields at most.
SameButReview(a, b) ==
    [a EXCEPT !.status = b.status, !.reviewed_by = b.reviewed_by,
              !.reviewed_at = b.reviewed_at] = b

\* C25: decline_pending_change leaves the phases, the rows with their
\* timestamps, the roles, the scripts, the project and the audit log as they
\* are; among the changes it touches the review fields of the declined change
\* and, for a row_move or row_duplicate, of the table_data record of the
\* submission, and nothing else.
Thm_C25_DeclineFrame ==
    [][last'.op = "decline_pending_change" =>
          /\ Store' = Store
          /\ logs' = logs
          /\ Len(changes') = Len(changes)
          /\ IF PendingIndex(last'.change_id) = 0
             THEN changes' = changes
             ELSE \A i \in 1..Len(changes) :
                     /\ SameButReview(changes'[i], changes[i])
                     /\ changes'[i] # changes[i] =>
                           \/ i = PendingIndex(last'.change_id)
                           \/ /\ Reviewing.change_type \in OrderTypes
                              /\ i = TableDataIndex(changes, Reviewing.submission_id)]_vars

\* An edit was declined next to an applied change of the same submission:
\* the store holds what the accept wrote, the table_data record of the
\* submission is still pending.
Wit_C25_DeclineFrame ==
    /\ last.op = "decline_pending_change"
    /\ resp.status = 200
    /\ changes[last.change_id].status = "declined"
    /\ changes[last.change_id].change_type \notin OrderTypes
    /\ \E i, t \in 1..Len(changes) :
          /\ changes[i].submission_id = changes[last.change_id].submission_id
          /\ changes[t].submission_id = changes[last.change_id].submission_id
          /\ changes[i].status = "accepted"
          /\ changes[t].change_type = "table_data"
          /\ changes[t].status = "pending"

\* C26: the reset_epoch of the project never decreases; a request other
\* than reset_all_statuses leaves it as it is, reset_all_statuses by the
\* manager role adds one to it, and by any other role leaves it as it is.
Thm_C26_ResetEpochMonotone ==
    [][/\ project'.reset_epoch >= project.reset_epoch
       /\ last'.op # "reset_statuses" => project'.reset_epoch = project.reset_epoch
       /\ last'.op = "reset_statuses" =>
             project'.reset_epoch =
                IF last'.actor.user_role = project.manager_role
                THEN project.reset_epoch + 1
                ELSE project.reset_epoch]_vars

\* The manager has reset the statuses after a row was edited, and the logs
\* were read afterwards.
Wit_C26_ResetEpochMonotone ==
    /\ project.reset_epoch = 1
    /\ last.op = "get_action_logs"
    /\ \E i, k \in 1..Len(logs) :
          /\ i < k
          /\ logs[i].action_type \in {"row_edit", "row_status_change"}
          /\ logs[k].action_type = "reset_statuses"
          /\ logs[k].reset_epoch = 1

-----------------------------------------------------------------------------
(* Properties of the direct writes *)

\* A direct update of a row that the store holds.
Updating == last'.op = "update_row" /\ resp'.status = 200

\* C27: an update_row that changes none of role, time, duration, description
\* and script leaves the updated_at of the row as it is, whether it changes
\* only the script result or repeats the values the row has.
Orig_C27_NoContentNoReorder ==
    [][(/\ Updating
        /\ \A f \in ContentFields : rows'[last'.row_id][f] = rows[last'.row_id][f]) =>
          rows'[last'.row_id].updated_at = rows[last'.row_id].updated_at]_vars

\* C28: reset_all_statuses leaves the updated_at of every row as it is, and
\* with it the order in which every phase shows its rows.
Orig_C28_ResetKeepsOrder ==
    [][(last'.op = "reset_statuses" /\ resp'.status = 200) =>
          /\ \A r \in DOMAIN rows : rows'[r].updated_at = rows[r].updated_at
          /\ PhaseOrders(rows', phases') = PhaseOrders(rows, phases)]_vars

\* The entries a step appends to the audit log.
NewEntries == {logs'[i] : i \in (Len(logs) + 1)..Len(logs')}

\* C30: every row_edit entry that a manager's update_row writes holds, for
\* its field, the value before the update as old_data and the value after it
\* as new_data, and the two differ.
Orig_C30_EditEntryValues ==
    [][(Updating /\ last'.actor.user_role = project.manager_role) =>
          \A e \in NewEntries :
             e.action_type = "row_edit" =>
                \A f \in DOMAIN e.details.old_data :
                   /\ e.details.old_data[f] = rows[last'.row_id][f]
                   /\ e.details.new_data[f] = rows'[last'.row_id][f]
                   /\ e.details.old_data[f] # e.details.new_data[f]]_vars

\* The 1-based place of a row in the table as it is displayed: the rows of
\* the phases of lower number, then the rows shown before it in its phase.
DisplayPosition(row_id) ==
    LET phase_id == rows[row_id].phase_id
        shown == PhaseRows(phase_id)
    IN 1 + Cardinality({r \in DOMAIN rows :
                           phases[rows[r].phase_id].phase_number < phases[phase_id].phase_number})
         + Cardinality({j \in 1..Len(shown) : \E i \in 1..Len(shown) : j < i /\ shown[i] = row_id})

\* C29: the row_position_at_action of a row_delete entry written for the
\* manager is the place at which the row was displayed when it was deleted.
Orig_C29_LoggedPosition ==
    [][(last'.op = "delete_row" /\ resp'.status = 200) =>
          \A e \in NewEntries :
             e.action_type = "row_delete" =>
                e.details.row_position_at_action = DisplayPosition(last'.row_id)]_vars

-----------------------------------------------------------------------------
(* Properties of the diff with explicit operations *)

\* The phase entries of the submitted snapshot.
SubmittedTable == IF "table_data" \in DOMAIN last.changes_data
                  THEN last.changes_data.table_data ELSE <<>>

\* The well-formed entries of explicit_operations.row_moves.
DeclaredMoves ==
    {o \in Range(ExplicitOps(last.changes_data).row_moves) :
        o.row_id # NoId /\ o.source_phase_number # NoPhase /\ o.target_phase_number # NoPhase}

\* The changes of a type that were created for a row id.
CreatedFor(t, key, id) ==
    {i \in CreatedOfType(t) : resp.created_changes[i].changes_data[key] = id}

\* The row_add changes created for a phase number with the data of a snapshot row.
AddsLike(phase_number, d) ==
    {i \in CreatedOfType("row_add") :
        /\ resp.created_changes[i].changes_data.phase_number = phase_number
        /\ resp.created_changes[i].changes_data.row_data = RowData(d)}

\* No row_add was created for the snapshot row of that id: the row_add changes
\* with its data are owed to other rows of its phase entry.
NoAddFor(id) ==
    \A k \in 1..Len(SubmittedTable) :
       \A j \in 1..Len(SubmittedTable[k].rows) :
          SubmittedTable[k].rows[j].id = id =>
             Cardinality(AddsLike(SubmittedTable[k].phase, SubmittedTable[k].rows[j]))
                <= Cardinality({i \in 1..Len(SubmittedTable[k].rows) :
                                   /\ SubmittedTable[k].rows[i].id # id
                                   /\ RowData(SubmittedTable[k].rows[i])
                                         = RowData(SubmittedTable[k].rows[j])})

\* C31: for every row id named in a well-formed entry of
\* explicit_operations.row_moves, the submission creates exactly one row_move
\* for that id, and no row_add and no row_delete for it, within a phase and
\* from one phase to another.
Orig_C31_ExplicitMoveWins ==
    Submitted =>
       \A o \in DeclaredMoves :
          /\ Cardinality(CreatedFor("row_move", "row_id", o.row_id)) = 1
          /\ CreatedFor("row_delete", "row_id", o.row_id) = {}
          /\ NoAddFor(o.row_id)

\* The durable rows that the snapshot lists in a phase entry of another
\* number than the phase that holds them.
CrossPhaseRows ==
    {r \in DOMAIN rows :
        \E k \in 1..Len(SubmittedTable) :
           /\ SubmittedTable[k].phase # NoPhase
           /\ SubmittedTable[k].phase # phases[rows[r].phase_id].phase_number
           /\ \E j \in 1..Len(SubmittedTable[k].rows) : SubmittedTable[k].rows[j].id = r}

\* The places <<k, j>> of the snapshot that satisfy a test on the row and the
\* phase number of its entry.
PlacesWhere(Test(_, _)) ==
    {kj \in UNION {{<<k, j>> : j \in 1..Len(SubmittedTable[k].rows)} :
                      k \in 1..Len(SubmittedTable)} :
        /\ SubmittedTable[kj[1]].phase # NoPhase
        /\ Test(SubmittedTable[kj[1]].rows[kj[2]], SubmittedTable[kj[1]].phase)}

MatchesNoDurableRow(d, phase_number) == d.id = NoId \/ d.id \notin DOMAIN rows

NotInItsPhase(d, phase_number) == d.id = NoId \/ d.id \notin current_row_ids(phase_number)

\* A row_add was created with the data of the snapshot row of that id, for
\* every phase entry of another number that lists it.
HasAddFor(r) ==
    \A k \in 1..Len(SubmittedTable) :
       \A j \in 1..Len(SubmittedTable[k].rows) :
          (/\ SubmittedTable[k].rows[j].id = r
           /\ SubmittedTable[k].phase # NoPhase
           /\ SubmittedTable[k].phase # phases[rows[r].phase_id].phase_number) =>
              AddsLike(SubmittedTable[k].phase, SubmittedTable[k].rows[j]) # {}

DeclaredDuplicates ==
    {o \in Range(ExplicitOps(last.changes_data).row_duplicates) :
        o.source_row_id # NoId /\ o.target_phase_number # NoPhase /\ o.new_row_id # NoId}

\* C33: for every entry of explicit_operations.row_duplicates with a source
\* row id, a target phase and a temporary id, the submission creates exactly
\* one row_duplicate for the pair and no row_add for the snapshot row that
\* carries the temporary id.
Thm_C33_ExplicitDuplicate ==
    Submitted =>
       \A o \in DeclaredDuplicates :
          /\ Cardinality({i \in CreatedFor("row_duplicate", "source_row_id", o.source_row_id) :
                resp.created_changes[i].changes_data.new_row_id = o.new_row_id}) = 1
          /\ NoAddFor(o.new_row_id)

\* A duplicate was declared for a snapshot row whose content is not the
\* content of the source, next to the rows of the target phase.
Wit_C33_ExplicitDuplicate ==
    /\ Submitted
    /\ NumCreated("row_duplicate") = 1
    /\ NumCreated("row_add") = 0
    /\ \E o \in DeclaredDuplicates :
          \E k \in 1..Len(SubmittedTable) :
             /\ SubmittedTable[k].phase = o.target_phase_number
             /\ Len(SubmittedTable[k].rows) > 1
             /\ \E j \in 1..Len(SubmittedTable[k].rows) :
                   /\ SubmittedTable[k].rows[j].id = o.new_row_id
                   /\ o.source_row_id \in DOMAIN rows
                   /\ Signature(SubmittedTable[k].rows[j]) # Signature(rows[o.source_row_id])

\* The place of a row id in a table, <<0, 0>> when the table does not list it.
PlaceOf(T, id) ==
    LET S == {kj \in UNION {{<<k, j>> : j \in 1..Len(T[k].rows)} : k \in 1..Len(T)} :
                 T[kj[1]].rows[kj[2]].id = id}
    IN IF S = {} THEN <<0, 0>> ELSE CHOOSE kj \in S : TRUE

\* The declared moves of a durable row that the snapshot lists in the declared
\* target phase, at another place than the table shows it and with another
\* content.
EditedAndMoved ==
    {o \in DeclaredMoves :
        /\ o.row_id \in DOMAIN rows
        /\ o.source_phase_number = phases[rows[o.row_id].phase_id].phase_number
        /\ LET at == PlaceOf(SubmittedTable, o.row_id)
           IN /\ at # <<0, 0>>
              /\ at # PlaceOf(CurrentTable, o.row_id)
              /\ SubmittedTable[at[1]].phase = o.target_phase_number
              /\ Signature(SubmittedTable[at[1]].rows[at[2]]) # Signature(rows[o.row_id])}

\* C34: a row that a submission both edits and moves, within its phase or to
\* another phase, yields exactly one row_update and exactly one row_move for
\* its id.
Orig_C34_EditAndMove ==
    Submitted =>
       \A o \in EditedAndMoved :
          /\ Cardinality(CreatedFor("row_update", "row_id", o.row_id)) = 1
          /\ Cardinality(CreatedFor("row_move", "row_id", o.row_id)) = 1

\* The durable rows whose id the snapshot lists nowhere and no declared move
\* names.
AbsentRows ==
    {r \in DOMAIN rows :
        /\ PlaceOf(SubmittedTable, r) = <<0, 0>>
        /\ \A o \in DeclaredMoves : o.row_id # r}

\* C35: every durable row whose id the submitted snapshot lists nowhere and
\* that no explicit move names yields exactly one row_delete, also when the
\* snapshot leaves out the whole phase of the row.
Orig_C35_CompleteDeletion ==
    (Submitted /\ "table_data" \in DOMAIN last.changes_data) =>
       \A r \in AbsentRows : Cardinality(CreatedFor("row_delete", "row_id", r)) = 1

\* A change of a type that needs the order of the snapshot was created.
StructuralCreated ==
    \E t \in {"row_add", "row_delete", "row_move", "row_duplicate"} : NumCreated(t) > 0

\* C36: a submission holds one table_data change, with the submitted
\* snapshot as it was sent, when the request held table_data and a row_add,
\* row_delete, row_move or row_duplicate was created, and none otherwise.
Thm_C36_SnapshotRecord ==
    Submitted =>
       /\ NumCreated("table_data") =
             IF "table_data" \in DOMAIN last.changes_data /\ StructuralCreated THEN 1 ELSE 0
       /\ \A i \in CreatedOfType("table_data") :
             resp.created_changes[i].changes_data.table_data = last.changes_data.table_data
       /\ \A i \in 1..Len(changes) :
             changes[i].change_type = "table_data" =>
                \E j \in CreatedOfType("table_data") : resp.created_changes[j] = changes[i]

\* A row was edited and moved within its phase: the row_move brings the
\* record with it, next to the row_update.
Wit_C36_SnapshotRecord ==
    /\ Submitted
    /\ NumCreated("row_move") = 1
    /\ NumCreated("row_update") = 1
    /\ NumCreated("row_add") = 0
    /\ NumCreated("row_delete") = 0
    /\ NumCreated("table_data") = 1

-----------------------------------------------------------------------------
(* Properties of update_table_data *)

\* The request was the old table with one or more rows taken out, every
\* other row with its id, its content and its place among the others.
DeletionOnly == last.op = "update_table_data" /\ last.data \in ThinnedTables(last.old)

LoggedAs(action_type) == {i \in 1..Len(logs) : logs[i].action_type = action_type}

\* C37: a bulk update that only removes rows writes one row_delete entry
\* for each removed row and no row_move entry, whichever rows and however
\* many of them are removed.
Orig_C37_DeletionOnlyLogs ==
    DeletionOnly =>
        /\ \A id \in TableIds(last.old) \ TableIds(last.data) :
              Cardinality({i \in LoggedAs("row_delete") : logs[i].row_id = id}) = 1
        /\ Cardinality(LoggedAs("row_delete"))
              = Cardinality(TableIds(last.old) \ TableIds(last.data))
        /\ LoggedAs("row_move") = {}

-----------------------------------------------------------------------------
(* Properties of review requests served at the same time *)

AppliedBy(change_id) ==
    {i \in 1..Len(inflight) : /\ inflight[i].op = "accept"
                              /\ inflight[i].change_id = change_id
                              /\ inflight[i].applied}

\* C38: two accept requests of one pending change, their statements
\* interleaved, apply the change to the store at most once: no change is
\* applied by two requests, and the store has at most one new row for each
\* row_add or row_duplicate change.
Orig_C38_AppliedAtMostOnce ==
    /\ \A c \in 1..Len(changes) : Cardinality(AppliedBy(c)) <= 1
    /\ Cardinality((DOMAIN rows) \ (DOMAIN InitialRows))
          <= Cardinality({c \in 1..Len(changes) :
                             changes[c].change_type \in {"row_add", "row_duplicate"}})

Quiet == \A i \in 1..Len(inflight) : inflight[i].pc = "done"

\* C39: when an accept and a decline of one pending change were served at
\* the same time and the change ends as declined, the rows, phases, roles,
\* scripts and the version are what they were before the review.
Orig_C39_DeclinedNotApplied ==
    \A c \in 1..Len(changes) :
        /\ Quiet
        /\ changes[c].status = "declined"
        /\ \A i \in 1..Len(inflight) : inflight[i].change_id = c
        => /\ rows = InitialRows
           /\ phases = (1 :> [phase_number |-> 1, is_active |-> FALSE]) @@
                        (2 :> [phase_number |-> 2, is_active |-> FALSE])
           /\ roles = {"r1", "r2"}
           /\ scripts = (1 :> [name |-> "n1", path |-> "p1", status |-> FALSE])
           /\ project.version = "v1.0.0"

ResponseBody(response) ==
    IF response.json.kind = "object" THEN response.json.value ELSE response.json.value[1]

LastCommitter(i) ==
    /\ inflight[i].marked_at # 0
    /\ \A j \in 1..Len(inflight) : inflight[j].marked_at <= inflight[i].marked_at

NonePending(submission_id) ==
    \A c \in 1..Len(changes) :
        changes[c].submission_id = submission_id /\ changes[c].change_type # "table_data"
        => changes[c].status # "pending"

ReportsCompletion(i) ==
    /\ inflight[i].pc = "done"
    /\ inflight[i].response.status = 200
    /\ ResponseBody(inflight[i].response).all_processed

====
